---- MODULE Spec2Model ----
(***************************************************************************)
(* Varela Digital TEI viewer: the surface-aware text rendering of the      *)
(* client viewer (sliceBySurface + renderNode), the page boot sequence     *)
(* with its standoff loader, and the annotation lookups.                   *)
(*                                                                         *)
(* Strings whose characters the code inspects (attribute values, text      *)
(* content, surface ids) are sequences of one-character strings; strings   *)
(* that are only compared with literals (element names, @type, the view    *)
(* mode) are TLA+ strings.                                                 *)
(***************************************************************************)
EXTENDS Integers, Sequences, FiniteSets, TLC

VARIABLES
    \* ---- text rendering (part_004, second viewer) ----
    teiDoc,          \* the fetched TEI document: [facsimile, body]
    VIEW_MODE,       \* current view mode
    SURFACES,        \* surface ids read from the facsimile
    CURRENT_SURFACE, \* surface shown
    pc,              \* "boot" | "slice" | "idle": position of the main thread
    kids,            \* sliceBySurface: the filtered direct children of the div
    si,              \* sliceBySurface: index of the child the loop is at
    activeSurface,   \* sliceBySurface: the active surface
    buckets,         \* sliceBySurface: the Map, in insertion order
    wanted,          \* sliceBySurface: the requested bucket key
    result,          \* the value sliceBySurface returned (indices into kids)
    layer,           \* children of the transcription layer after renderText
    \* ---- page boot and standoff loading (viewer.js) ----
    fileParam,       \* the ?file= parameter: TRUE when one is given
    htmlStatus,      \* the prerendered HTML on the server: "ok" | "nodiv" | "empty" | "missing"
    standoffFiles,   \* the four standoff files on the server: a document or Failing
    bpc,             \* position of the DOMContentLoaded handler
    readingLayer,    \* what the reading layer shows: "empty" | "doc" | "placeholder"
    tabsBound,       \* setupViewTabs has run
    annotBound,      \* setupAnnotationBehaviour has run
    consoleErrors,   \* number of console.error calls of the boot handler
    STANDOFF_INDEX,  \* the standoff index, key -> value
    fetchCount,      \* per standoff file, the fetches issued so far
    lpc,             \* per call of loadStandoffFiles: "none" | "fetch" | "done" | "threw"
    lk,              \* per call: position in STANDOFF_FILES of the awaited fetch (0: returned at the guard)
    lentries,        \* per call: the local entries array
    \* ---- annotation panel (setupAnnotationBehaviour) ----
    pageScript,      \* the copy of the viewer script the page runs
    annotOpen,       \* document.body carries the class annotations-open
    boxHidden,       \* #annotations-box carries the class d-none
    lastTarget,      \* what the last click hit: "ref" | "when" | "inert" | "outside" | "close"
    annotContent,    \* markup of #annotations-content, as template pieces
    lastClick,       \* the click the panel answers: data-ref, data-when, id, entry
    handlerThrew,    \* the last run of the click handler ended in an uncaught error
    \* ---- offline transform (batch_xslt.sh, tei2html.xsl) ----
    xmlSource,       \* the TEI file given to the transform: [facsimile, body]
    htmlFile,        \* the HTML file the transform wrote: [built, body]
    \* ---- organizations tree (part_001, network_orgs.js) ----
    ROOT_OBJ,        \* <<>> before the data is loaded, then <<root>>
    COLLAPSED,       \* ids of the collapsed nodes
    CURRENT_TYPE,    \* value of the type filter
    CURRENT_QUERY,   \* value of the search box
    treeDrawn,       \* the tree in the svg: [nodes, collapsed] (sets of ids)
    userExpanded,    \* ids the user expanded and has not collapsed since
    treeOp,          \* the last handler that ran on the tree page
    \* ---- year animation of the map (part_001, map script) ----
    YEAR_TIMER,      \* 0 for null, else the id setInterval returned
    intervals,       \* ids of the intervals the browser holds
    timersMade,      \* number of setInterval calls so far
    YEAR_OPTIONS,    \* the years the animation walks through
    YEAR_INDEX,      \* 0-based position in YEAR_OPTIONS
    yearOptions,     \* values of the options of #yearFilter
    yearValue,       \* value of #yearFilter
    shownYear,       \* the year the last applyFilters filtered the map by
    filtersDisabled, \* argument of the last setFiltersDisabled
    yearOp,          \* the last handler that ran on the map page
    \* ---- indexes browser (indexes.js) ----
    data,            \* the records of indexes.json
    idxYear,         \* value of #yearFilter of the browser
    idxAuthor,       \* value of #authorFilter
    filteredDocs,    \* the array filtered: the records that pass the filters
    currentPage,     \* page number
    pageItems,       \* the records the page shows
    prevDisabled,    \* prevBtn.disabled
    nextDisabled,    \* nextBtn.disabled
    linkTargets,     \* pages the links of #pageLinks lead to
    hasLinks,        \* the page has a #pageLinks element
    rendered         \* renderPage has run

textVars == <<teiDoc, VIEW_MODE, SURFACES, CURRENT_SURFACE, pc, kids, si,
              activeSurface, buckets, wanted, result, layer>>

bootVars == <<fileParam, htmlStatus, standoffFiles, bpc, readingLayer, tabsBound,
              annotBound, consoleErrors, STANDOFF_INDEX, fetchCount, lpc, lk,
              lentries>>

cardVars == <<pageScript, annotOpen, boxHidden, lastTarget, annotContent,
              lastClick, handlerThrew>>

xsltVars == <<xmlSource, htmlFile>>

treeVars == <<ROOT_OBJ, COLLAPSED, CURRENT_TYPE, CURRENT_QUERY, treeDrawn,
              userExpanded, treeOp>>

yearVars == <<YEAR_TIMER, intervals, timersMade, YEAR_OPTIONS, YEAR_INDEX,
              yearOptions, yearValue, shownYear, filtersDisabled, yearOp>>

idxVars == <<data, idxYear, idxAuthor, filteredDocs, currentPage, pageItems,
             prevDisabled, nextDisabled, linkTargets, hasLinks, rendered>>

\* the state of the pages other than the viewer
siteVars == <<treeVars, yearVars, idxVars>>

vars == <<textVars, bootVars, cardVars, xsltVars, siteVars>>

\* the organizations page before its script has loaded the data
TreeQuiet ==
    /\ ROOT_OBJ = <<>>
    /\ COLLAPSED = {}
    /\ CURRENT_TYPE = <<"a", "l", "l">>
    /\ CURRENT_QUERY = <<>>
    /\ treeDrawn = [nodes |-> {}, collapsed |-> {}]
    /\ userExpanded = {}
    /\ treeOp = "none"

\* the map page with no year option and no animation
YearQuiet ==
    /\ YEAR_TIMER = 0
    /\ intervals = {}
    /\ timersMade = 0
    /\ YEAR_OPTIONS = <<>>
    /\ YEAR_INDEX = 0
    /\ yearOptions = <<"">>
    /\ yearValue = ""
    /\ shownYear = ""
    /\ filtersDisabled = FALSE
    /\ yearOp = "none"

\* the indexes browser before indexes.json has arrived
IdxQuiet ==
    /\ data = <<>>
    /\ idxYear = ""
    /\ idxAuthor = ""
    /\ filteredDocs = <<>>
    /\ currentPage = 1
    /\ pageItems = <<>>
    /\ prevDisabled = FALSE
    /\ nextDisabled = FALSE
    /\ linkTargets = {}
    /\ hasLinks = FALSE
    /\ rendered = FALSE

SiteQuiet == TreeQuiet /\ YearQuiet /\ IdxQuiet

----------------------------------------------------------------------------
(* Bounds *)

MaxKids == 3

\* calls of loadStandoffFiles in one session (the boot handler's is call 1)
MaxCalls == 2

----------------------------------------------------------------------------
(* Strings as character sequences *)

\* JavaScript's undefined, as a Map key and as a variable's value: a value
\* that is no character sequence.
Undefined == <<"undefined">>

Digits == {"0", "1", "2", "3", "4", "5", "6", "7", "8", "9"}

IsSpace(c) == c \in {" ", "\n", "\t"}

RECURSIVE trimStart(_)
trimStart(s) ==
    IF s = <<>> THEN <<>>
    ELSE IF IsSpace(Head(s)) THEN trimStart(Tail(s)) ELSE s

RECURSIVE trimEnd(_)
trimEnd(s) ==
    IF s = <<>> THEN <<>>
    ELSE IF IsSpace(s[Len(s)]) THEN trimEnd(SubSeq(s, 1, Len(s) - 1)) ELSE s

\* String.prototype.trim
trim(s) == trimEnd(trimStart(s))

lowerChar(c) ==
    CASE c = "A" -> "a" [] c = "B" -> "b" [] c = "C" -> "c" [] c = "D" -> "d"
      [] c = "E" -> "e" [] c = "F" -> "f" [] c = "G" -> "g" [] c = "H" -> "h"
      [] c = "I" -> "i" [] c = "J" -> "j" [] c = "K" -> "k" [] c = "L" -> "l"
      [] c = "M" -> "m" [] c = "N" -> "n" [] c = "O" -> "o" [] c = "P" -> "p"
      [] c = "Q" -> "q" [] c = "R" -> "r" [] c = "S" -> "s" [] c = "T" -> "t"
      [] c = "U" -> "u" [] c = "V" -> "v" [] c = "W" -> "w" [] c = "X" -> "x"
      [] c = "Y" -> "y" [] c = "Z" -> "z"
      [] OTHER -> c

\* String.prototype.toLowerCase
toLowerCase(s) == [i \in 1..Len(s) |-> lowerChar(s[i])]

\* End of the run of digits of s that starts at position i (s[i] a digit).
RECURSIVE digitRunEnd(_, _)
digitRunEnd(s, i) ==
    IF i < Len(s) /\ s[i + 1] \in Digits THEN digitRunEnd(s, i + 1) ELSE i

\* Whether /(\d+[rv])/ matches s at start position i.
folioMatchesAt(s, i) ==
    /\ i \in 1..Len(s)
    /\ s[i] \in Digits
    /\ LET e == digitRunEnd(s, i)
       IN  e < Len(s) /\ s[e + 1] \in {"r", "v"}

\* s.match(/(\d+[rv])/): group 1 of the leftmost match, "" when none.
matchFolio(s) ==
    LET starts == {i \in 1..Len(s) : folioMatchesAt(s, i)}
    IN  IF starts = {} THEN <<>>
        ELSE LET i == CHOOSE k \in starts : \A j \in starts : k <= j
             IN  SubSeq(s, i, digitRunEnd(s, i) + 1)

----------------------------------------------------------------------------
(* TEI nodes *)

NoAttrs == [ref |-> <<>>, when |-> <<>>, n |-> <<>>, type |-> "", place |-> <<>>,
            id |-> <<>>, plainId |-> <<>>]

TextNode(t) == [nodeType |-> "text", ns |-> "", localName |-> "#text",
                attrs |-> NoAttrs, text |-> t, children |-> <<>>]

Elem(ns, ln, a, ch) == [nodeType |-> "element", ns |-> ns, localName |-> ln,
                        attrs |-> a, text |-> <<>>, children |-> ch]

Tei(ln, a, ch) == Elem("tei", ln, a, ch)

\* Node.textContent
RECURSIVE textContent(_)
RECURSIVE textContentAll(_)
textContent(node) ==
    IF node.nodeType = "text" THEN node.text ELSE textContentAll(node.children)
textContentAll(ns) ==
    IF ns = <<>> THEN <<>> ELSE textContent(Head(ns)) \o textContentAll(Tail(ns))

\* attr(node, name): the attribute, trimmed; "" when absent
attr(node, name) ==
    CASE name = "ref"   -> trim(node.attrs.ref)
      [] name = "when"  -> trim(node.attrs.when)
      [] name = "n"     -> trim(node.attrs.n)
      [] name = "place" -> trim(node.attrs.place)
      [] name = "type"  -> node.attrs.type
      [] name = "xml:id" -> trim(node.attrs.id)
      [] name = "id"    -> trim(node.attrs.plainId)

----------------------------------------------------------------------------
(* Surfaces and surface slicing *)

First(seq) == IF seq = <<>> THEN Undefined ELSE seq[1]

\* readSurfaces: the @n of every facsimile surface, trimmed, empty ones dropped
readSurfaces(doc) ==
    SelectSeq([i \in 1..Len(doc.facsimile) |-> trim(doc.facsimile[i])],
              LAMBDA n : n # <<>>)

normalizeFolio(f) == trim(f)

extractFolioFromSeg(segNode) == matchFolio(toLowerCase(textContent(segNode)))

extractFolioFromPlace(placeAttr) == matchFolio(toLowerCase(placeAttr))

collectTopLevelElementNodes(divChildren) ==
    SelectSeq(divChildren,
              LAMBDA n : \/ n.nodeType = "element"
                         \/ (n.nodeType = "text" /\ trim(n.text) # <<>>))

isPb(n) == n.nodeType = "element" /\ n.ns = "tei" /\ n.localName = "pb"

isFolioSeg(n) ==
    /\ n.nodeType = "element" /\ n.ns = "tei" /\ n.localName = "seg"
    /\ attr(n, "type") = "folio"

isEndorsement(n) ==
    /\ n.nodeType = "element" /\ n.ns = "tei" /\ n.localName = "note"
    /\ attr(n, "type") = "endorsement"

\* The children the loop skips: page breaks and folio segments.
isMarker(n) == isPb(n) \/ isFolioSeg(n)

\* Map: has / ensure / push / get, the Map kept in insertion order.
hasKey(b, s) == \E i \in 1..Len(b) : b[i].key = s

ensure(b, s) == IF hasKey(b, s) THEN b ELSE Append(b, [key |-> s, items |-> <<>>])

RECURSIVE ensureAll(_, _)
ensureAll(b, ss) == IF ss = <<>> THEN b ELSE ensureAll(ensure(b, Head(ss)), Tail(ss))

bucketPush_skipUndefined(b, s, x) ==
    IF s = Undefined THEN b
    ELSE LET b2 == ensure(b, s)
         IN  [i \in 1..Len(b2) |->
                IF b2[i].key = s THEN [b2[i] EXCEPT !.items = Append(@, x)]
                ELSE b2[i]]

\* ensure(s).push(x)
bucketPush(b, s, x) ==
    LET b2 == ensure(b, s)
    IN  [i \in 1..Len(b2) |->
            IF b2[i].key = s THEN [b2[i] EXCEPT !.items = Append(@, x)] ELSE b2[i]]

\* buckets.get(s) || []
bucketGet(b, s) ==
    IF hasKey(b, s) THEN b[CHOOSE i \in 1..Len(b) : b[i].key = s].items ELSE <<>>

\* a || b on strings and undefined
OrElse(a, b) == IF a = <<>> \/ a = Undefined THEN b ELSE a

initialSurface_none(surfs) == Undefined

\* let activeSurface = surfaces[0];
initialSurface(surfs) == First(surfs)

sliceKey_noPlace(n, active) == active

\* The key of the bucket a content child is pushed to (lines 555-558, 572-578).
sliceKey(n, active) ==
    IF isEndorsement(n)
    THEN OrElse(extractFolioFromPlace(attr(n, "place")), active)
    ELSE active

sliceNextSurface_noteSwitches(n, active) ==
    IF isPb(n) THEN OrElse(normalizeFolio(attr(n, "n")), active)
    ELSE IF isFolioSeg(n) THEN OrElse(extractFolioFromSeg(n), active)
    ELSE IF isEndorsement(n)
         THEN OrElse(extractFolioFromPlace(attr(n, "place")), active)
    ELSE active

\* The active surface after child n (lines 560-570).
sliceNextSurface(n, active) ==
    IF isPb(n) THEN LET pbN == normalizeFolio(attr(n, "n"))
                    IN  IF pbN # <<>> THEN pbN ELSE active
    ELSE IF isFolioSeg(n) THEN LET fol == extractFolioFromSeg(n)
                               IN  IF fol # <<>> THEN fol ELSE active
    ELSE active

----------------------------------------------------------------------------
(* TEI -> HTML rendering (renderNode) *)

Modes == {"reading", "diplomatic", "encoded", "translation"}

\* DOM output nodes. A DocumentFragment is the sequence of its children, so
\* renderNode returns a sequence of output nodes and appendChild is \o.
OutText(t) == [tag |-> "#text", cls |-> "", id |-> <<>>, dataRef |-> <<>>,
               dataWhen |-> <<>>, text |-> t, children |-> <<>>]

OutEl(tag, cls, id, ref, when, ch) ==
    [tag |-> tag, cls |-> cls, id |-> id, dataRef |-> ref, dataWhen |-> when,
     text |-> <<>>, children |-> ch]

\* el.textContent = t on a fresh element (an empty string adds no child)
TextChild(t) == IF t = <<>> THEN <<>> ELSE <<OutText(t)>>

\* xFirst(node, './tei:expan') and the like: first TEI child named ln
teiChildren(node, ln) ==
    SelectSeq(node.children,
              LAMBDA c : c.nodeType = "element" /\ c.ns = "tei" /\ c.localName = ln)

pbText(n, mode) ==
    IF mode = "reading"
    THEN (IF n # <<>> THEN <<"[">> \o n \o <<"]">> ELSE <<"[", "p", "b", "]">>)
    ELSE (IF n # <<>> THEN <<"[", "p", "b", " ">> \o n \o <<"]">>
                      ELSE <<"[", "p", "b", "]">>)

blockTagOf(ln) ==
    CASE ln = "div" -> "div"
      [] ln = "p" -> "p"
      [] ln = "head" -> "h3"
      [] ln \in {"opener", "closer", "postscript", "note", "dateline",
                 "salute", "signed", "addressee"} -> "div"
      [] OTHER -> "span"

dataRefOf_stripped(node) ==
    LET r == attr(node, "ref")
    IN  IF r # <<>> /\ Head(r) = "#" THEN Tail(r) ELSE r

\* const r = attr(node, 'ref'); if (r) el.dataset.ref = r;
dataRefOf(node) == attr(node, "ref")

\* span.dataset.ref.replace('#', ''): the first '#' removed, wherever it is
RECURSIVE refKey(_)
refKey(ref) ==
    IF ref = <<>> THEN <<>>
    ELSE IF Head(ref) = "#" THEN Tail(ref)
    ELSE <<Head(ref)>> \o refKey(Tail(ref))

RECURSIVE renderNode(_, _)
RECURSIVE renderChildren(_, _)

\* case 'choice' in reading mode: the first expan child, or an empty fragment
choiceReading(node, mode) ==
    LET expan == teiChildren(node, "expan")
    IN  IF expan # <<>> THEN renderNode(expan[1], mode) ELSE <<>>

choiceOther_abbrOnly(node, mode) ==
    LET abbr == teiChildren(node, "abbr")
    IN  IF abbr # <<>> THEN renderNode(abbr[1], mode)
        ELSE <<OutEl("span", "", <<>>, <<>>, <<>>, renderChildren(node.children, mode))>>

\* case 'choice' in the other modes: a span holding every child
choiceOther(node, mode) ==
    <<OutEl("span", "", <<>>, <<>>, <<>>, renderChildren(node.children, mode))>>

renderNode(node, mode) ==
    IF node.nodeType = "text" THEN <<OutText(node.text)>>
    ELSE IF node.nodeType # "element" THEN <<>>
    ELSE LET ln == node.localName
             ch == renderChildren(node.children, mode)
         IN  CASE ln = "choice" ->
                    IF mode = "reading" THEN choiceReading(node, mode)
                    ELSE choiceOther(node, mode)
               [] ln = "pb" ->
                    LET n == attr(node, "n")
                    IN  <<OutEl("span", "page-break",
                                IF n # <<>> THEN <<"p", "b", "-">> \o n ELSE <<>>,
                                <<>>, <<>>, TextChild(pbText(n, mode)) \o ch)>>
               [] ln = "seg" ->
                    IF attr(node, "type") = "folio" /\ mode = "reading" THEN <<>>
                    ELSE <<OutEl("span", "page-break", <<>>, <<>>, <<>>, ch)>>
               [] ln \in {"persName", "placeName", "orgName"} ->
                    <<OutEl("span", "annotated", <<>>, dataRefOf(node), <<>>, ch)>>
               [] ln = "date" ->
                    <<OutEl("span", "annotated", <<>>, dataRefOf(node),
                            attr(node, "when"), ch)>>
               [] OTHER ->
                    <<OutEl(blockTagOf(ln), "", <<>>, <<>>, <<>>, ch)>>

renderChildren(ns, mode) ==
    IF ns = <<>> THEN <<>>
    ELSE renderNode(Head(ns), mode) \o renderChildren(Tail(ns), mode)

\* textContent of rendered output
RECURSIVE outText(_)
outText(out) ==
    IF out = <<>> THEN <<>>
    ELSE (IF Head(out).tag = "#text" THEN Head(out).text
          ELSE outText(Head(out).children)) \o outText(Tail(out))

\* every element of the rendered output, in document order
RECURSIVE outElements(_)
outElements(out) ==
    IF out = <<>> THEN <<>>
    ELSE (IF Head(out).tag = "#text" THEN <<>>
          ELSE <<Head(out)>> \o outElements(Head(out).children))
         \o outElements(Tail(out))

----------------------------------------------------------------------------
(* Documents the viewer is opened on *)

A(ref, when, n, type, place) ==
    [ref |-> ref, when |-> when, n |-> n, type |-> type, place |-> place,
     id |-> <<>>, plainId |-> <<>>]

T_a == TextNode(<<"a">>)
T_b == TextNode(<<"b">>)
T_ws == TextNode(<<" ", "\n">>)
P_b == Tei("p", NoAttrs, <<T_b>>)
Pb_1v == Tei("pb", A(<<>>, <<>>, <<"1", "v">>, "", <<>>), <<>>)
Pb_none == Tei("pb", NoAttrs, <<>>)
Pb_foreign == Elem("", "pb", A(<<>>, <<>>, <<"1", "v">>, "", <<>>), <<>>)
Seg_2r == Tei("seg", A(<<>>, <<>>, <<>>, "folio", <<>>),
              <<TextNode(<<"F", "l", ".", " ", "2", "R">>)>>)
Seg_nocode == Tei("seg", A(<<>>, <<>>, <<>>, "folio", <<>>),
                  <<TextNode(<<"v", "e", "r", "s", "o">>)>>)
Note_1v == Tei("note", A(<<>>, <<>>, <<>>, "endorsement", <<"f", "1", "V">>), <<T_a>>)
Note_noplace == Tei("note", A(<<>>, <<>>, <<>>, "endorsement", <<"t", "o", "p">>), <<T_b>>)

SliceKidSamples ==
    {T_a, T_ws, P_b, Pb_1v, Pb_none, Seg_2r, Seg_nocode, Note_1v, Note_noplace,
     Pb_foreign}

SliceBodies == UNION {[1..k -> SliceKidSamples] : k \in 0..MaxKids}

Facsimiles ==
    { <<>>, << <<"1", "r">> >>, << <<"1", "r">>, <<"1", "v">> >>,
      << <<" ">>, <<"1", "v", " ">> >> }

SliceDocs ==
    [facsimile : Facsimiles, hasDiv : {TRUE}, body : SliceBodies]
    \cup {[facsimile |-> <<>>, hasDiv |-> FALSE, body |-> <<>>]}

\* Inline markup for the renderer
Abbr_q == Tei("abbr", NoAttrs, <<TextNode(<<"q">>)>>)
Expan_que == Tei("expan", NoAttrs, <<TextNode(<<"q", "u", "e">>)>>)
Hi_x == Tei("hi", NoAttrs, <<TextNode(<<"x">>)>>)

ChoiceKidSamples == {Abbr_q, Expan_que, Hi_x, T_a}

ChoiceNodes ==
    {Tei("choice", NoAttrs, ch) :
        ch \in UNION {[1..k -> ChoiceKidSamples] : k \in 0..2}}

RefSamples ==
    { <<>>, <<"#", "p", "1", "2">>, <<"#", "a", "-", "1">>, <<"p", "1">>,
      <<" ", "#", "x", "9">> }

WhenSamples == { <<>>, <<"1", "8", "3", "5", "-", "0", "3">> }

EntityNodes ==
    {Tei(ln, A(r, <<>>, <<>>, "", <<>>), <<T_a>>) :
        ln \in {"persName", "placeName", "orgName"}, r \in RefSamples}
    \cup {Tei("date", A(r, w, <<>>, "", <<>>), <<T_b>>) :
        r \in {<<>>, <<"#", "e", "1">>}, w \in WhenSamples}

OtherNodes ==
    {Pb_1v, Pb_none, Seg_2r, Tei("seg", NoAttrs, <<T_a>>),
     Tei("foreign", NoAttrs, <<T_a, Hi_x>>), Tei("head", NoAttrs, <<T_b>>),
     Elem("", "comment", NoAttrs, <<>>)}

InlineNodes == ChoiceNodes \cup EntityNodes \cup OtherNodes

RenderDocs ==
    {[facsimile |-> <<>>, hasDiv |-> TRUE, body |-> <<n>>] : n \in InlineNodes}
    \cup {[facsimile |-> <<>>, hasDiv |-> TRUE,
           body |-> <<Tei("p", NoAttrs, <<T_a, n, T_b>>)>>] : n \in InlineNodes}

Docs == SliceDocs \cup RenderDocs

----------------------------------------------------------------------------
(* The offline transform TEI -> HTML (tei2html.xsl) *)

\* normalize-space(.) = ''
IsBlank(t) == \A i \in 1..Len(t) : IsSpace(t[i])

\* the parents in which a blank text node between two siblings leaves a space
TextFlowParents == {"p", "head", "l", "note", "ab", "seg"}

\* the class attribute of the elements the templates write
xsltClass(ln) ==
    CASE ln = "div" -> "tei-div"
      [] ln = "opener" -> "tei-opener"
      [] ln = "closer" -> "tei-closer"
      [] ln = "postscript" -> "tei-postscript"
      [] ln = "dateline" -> "tei-dateline"
      [] ln = "salute" -> "tei-salute"
      [] ln = "signed" -> "tei-signed"
      [] ln = "addressee" -> "tei-addressee"
      [] ln = "lg" -> "tei-lg"
      [] ln = "l" -> "tei-l"
      [] ln = "list" -> "tei-list"
      [] ln = "table" -> "tei-table"
      [] ln \in {"persName", "placeName", "orgName", "date"} -> "annotated"
      [] OTHER -> ""

\* the HTML element of the templates that wrap their children in one element
xsltTag(ln) ==
    CASE ln \in {"opener", "closer", "postscript", "dateline", "salute", "signed",
                 "addressee", "lg", "l"} -> "div"
      [] ln = "p" -> "p"
      [] ln = "head" -> "h3"
      [] ln = "list" -> "ul"
      [] ln = "item" -> "li"
      [] ln = "row" -> "tr"
      [] ln = "cell" -> "td"
      [] OTHER -> ""

RECURSIVE applyTemplate(_, _, _)
RECURSIVE applyTemplates(_)
RECURSIVE applyToChildrenOf(_)

\* template match="text()[normalize-space(.)='']" and match="text()", for the
\* i-th child of parent
xsltText(node, parent, i) ==
    IF IsBlank(node.text)
    THEN (IF /\ parent.ns = "tei"
             /\ parent.localName \in TextFlowParents
             /\ 1 < i
             /\ i < Len(parent.children)
          THEN <<OutText(<<" ">>)>>
          ELSE <<>>)
    ELSE <<OutText(node.text)>>

\* template match="tei:seg[@type='folio']": <xsl:apply-templates/>
folioSeg(node) == applyTemplates(node)

\* template match="tei:choice"
xsltChoice(node) ==
    IF teiChildren(node, "expan") # <<>> THEN applyToChildrenOf(teiChildren(node, "expan"))
    ELSE IF teiChildren(node, "abbr") # <<>> THEN applyToChildrenOf(teiChildren(node, "abbr"))
    ELSE applyTemplates(node)

\* template match="tei:note[...]" (the sample documents carry no hand attribute)
xsltNote(node) ==
    CASE attr(node, "type") = "endorsement" ->
           <<OutEl("div", "tei-endorsement", <<>>, <<>>, <<>>, applyTemplates(node))>>
      [] attr(node, "type") = "hand" ->
           <<OutEl("span", "tei-note-hand", <<>>, <<>>, <<>>, applyTemplates(node))>>
      [] OTHER ->
           <<OutEl("div", "tei-note", <<>>, <<>>, <<>>, applyTemplates(node))>>

\* the template that matches the i-th child of parent, or the built-in rule
applyTemplate(node, parent, i) ==
    IF node.nodeType = "text" THEN xsltText(node, parent, i)
    ELSE IF node.nodeType # "element" THEN <<>>
    ELSE IF node.ns # "tei" THEN applyTemplates(node)
    ELSE LET ln == node.localName
         IN  CASE ln = "div" ->
                    <<OutEl("div", "tei-div", <<>>, <<>>, <<>>, applyTemplates(node)),
                      OutEl("div", "tei-spacer", <<>>, <<>>, <<>>, <<>>)>>
               [] xsltTag(ln) # "" ->
                    <<OutEl(xsltTag(ln), xsltClass(ln), <<>>, <<>>, <<>>,
                            applyTemplates(node))>>
               [] ln = "table" ->
                    <<OutEl("table", "tei-table", <<>>, <<>>, <<>>,
                            <<OutEl("tbody", "", <<>>, <<>>, <<>>, applyTemplates(node))>>)>>
               [] ln = "note" -> xsltNote(node)
               [] ln = "handShift" ->
                    <<OutEl("div", "tei-handshift", <<>>, <<>>, <<>>,
                            <<OutText(<<"L", "e", "t", "r", "a", " ", "d", "e", " ">>)>>)>>
               [] ln = "choice" -> xsltChoice(node)
               [] ln \in {"expan", "abbr"} -> applyTemplates(node)
               [] ln = "pb" -> <<>>
               [] ln = "seg" /\ attr(node, "type") = "folio" -> folioSeg(node)
               [] ln \in {"persName", "placeName", "orgName"} ->
                    <<OutEl("span", "annotated", <<>>, node.attrs.ref, <<>>,
                            applyTemplates(node))>>
               [] ln = "date" ->
                    <<OutEl("span", "annotated", <<>>, <<>>, node.attrs.when,
                            applyTemplates(node))>>
               [] ln = "lb" -> <<OutEl("br", "", <<>>, <<>>, <<>>, <<>>)>>
               [] OTHER -> applyTemplates(node)

\* <xsl:apply-templates/> in the context of an element
applyTemplates(node) ==
    LET RECURSIVE from(_)
        from(i) == IF i > Len(node.children) THEN <<>>
                   ELSE applyTemplate(node.children[i], node, i) \o from(i + 1)
    IN  from(1)

\* <xsl:apply-templates select="tei:expan/node()"/>
applyToChildrenOf(ns) ==
    IF ns = <<>> THEN <<>>
    ELSE applyTemplates(Head(ns)) \o applyToChildrenOf(Tail(ns))

\* the document node above tei:div[1]
BodyOf(doc) == Tei("body", NoAttrs, <<Tei("div", NoAttrs, doc.body)>>)

\* the children of div.tei-body: apply-templates to tei:text/tei:body/tei:div[1]
transform(doc) ==
    IF doc.hasDiv THEN applyTemplate(BodyOf(doc).children[1], BodyOf(doc), 1) ELSE <<>>

NotBuilt == [built |-> FALSE, body |-> <<>>]

\* one run of the transformer of batch_xslt.sh on one file
RunTransform ==
    /\ ~htmlFile.built
    /\ htmlFile' = [built |-> TRUE, body |-> transform(xmlSource)]
    /\ UNCHANGED <<xmlSource, textVars, bootVars, cardVars, siteVars>>

\* TEI files given to the transform
XsltSources == {d \in Docs : d.facsimile = <<>>}

\* no file has been given to the transform
XsltQuiet ==
    /\ xmlSource = [facsimile |-> <<>>, hasDiv |-> FALSE, body |-> <<>>]
    /\ htmlFile = NotBuilt

----------------------------------------------------------------------------
(* Standoff files and the standoff index (viewer.js, second version) *)

Kinds == <<"persons", "places", "orgs", "events">>

\* selectors of loadStandoffFiles
selectors(kind) ==
    CASE kind = "persons" -> <<"person">>
      [] kind = "places" -> <<"place">>
      [] kind = "orgs" -> <<"org">>
      [] kind = "events" -> <<"eventName", "event">>

\* a fetch or parse failure of fetchXML
Failing == "fails"

Entry(ns, ln, xmlid, plainId) ==
    Elem(ns, ln, [NoAttrs EXCEPT !.id = xmlid, !.plainId = plainId], <<>>)

Id_p1 == <<"p", "1">>
Id_x == <<"x">>
Id_pl1 == <<"p", "l", "1">>
Id_o1 == <<"o", "1">>
Id_e1 == <<"e", "1">>
Id_e2 == <<"e", "2">>

\* the list elements of each standoff document, in document order
PersonsDoc == <<Entry("tei", "person", Id_p1, <<>>), Entry("tei", "person", <<>>, <<>>),
                Entry("tei", "person", Id_x, <<>>)>>
PlacesDoc == <<Entry("tei", "place", <<" ">> \o Id_x, <<>>), Entry("tei", "place", Id_pl1, <<>>),
               Entry("tei", "org", Id_o1, <<>>)>>
OrgsDoc == <<Entry("", "org", <<>>, Id_o1)>>
EventsDoc == <<Entry("tei", "event", Id_e2, <<>>), Entry("tei", "eventName", Id_e1, <<>>)>>

StandoffDoc(kind) ==
    CASE kind = "persons" -> PersonsDoc
      [] kind = "places" -> PlacesDoc
      [] kind = "orgs" -> OrgsDoc
      [] kind = "events" -> EventsDoc

StandoffWorlds ==
    {w \in [{"persons", "places", "orgs", "events"} -> {"ok", Failing}] : TRUE}

\* found for one tag: //tei:tag, else getElementsByTagName(tag), else any
\* element whose localName equals tag
foundByTag(doc, tag) ==
    LET byTei == SelectSeq(doc, LAMBDA n : n.ns = "tei" /\ n.localName = tag)
        byName == SelectSeq(doc, LAMBDA n : n.localName = tag)
    IN  IF byTei # <<>> THEN byTei ELSE byName

RECURSIVE foundByTags(_, _)
foundByTags(doc, tags) ==
    IF tags = <<>> THEN <<>>
    ELSE foundByTag(doc, Head(tags)) \o foundByTags(doc, Tail(tags))

\* the {kind, node} records one loaded document adds to entries
selectEntries(kind, doc) ==
    LET nodes == foundByTags(doc, selectors(kind))
    IN  [i \in 1..Len(nodes) |-> [kind |-> kind, node |-> nodes[i]]]

\* attr(node, 'id', XML_NS) || getAttribute('xml:id') || getAttribute('id')
entryId(node) == OrElse(attr(node, "xml:id"), attr(node, "id"))

LoadedKey == <<"_", "_", "l", "o", "a", "d", "e", "d">>

\* the value true stored under __loaded
LoadedFlag == [nodeType |-> "boolean", value |-> TRUE]

EmptyIndex == [k \in {} |-> LoadedFlag]

\* index[key] = value
indexPut(index, key, value) ==
    [k \in (DOMAIN index) \cup {key} |-> IF k = key THEN value ELSE index[k]]

\* for (const { node } of entries) { ...; STANDOFF_INDEX[id] = node; }
RECURSIVE indexEntries(_, _)
indexEntries(index, entries) ==
    IF entries = <<>> THEN index
    ELSE LET id == entryId(Head(entries).node)
         IN  indexEntries(IF id = <<>> THEN index
                          ELSE indexPut(index, id, Head(entries).node),
                          Tail(entries))

alreadyLoaded_never(index) == FALSE

\* if (STANDOFF_INDEX.__loaded) return;
alreadyLoaded(index) == LoadedKey \in DOMAIN index

entriesAfter_dropOnFailure(entries, kind, ok) ==
    IF ok THEN entries \o selectEntries(kind, StandoffDoc(kind)) ELSE <<>>

\* entries after one file: nodes.forEach(n => entries.push({kind, node: n})),
\* or nothing pushed when fetchXML threw
entriesAfter(entries, kind, ok) ==
    IF ok THEN entries \o selectEntries(kind, StandoffDoc(kind)) ELSE entries

\* the prerendered HTML files a server can hold for a stem: a file with
\* content in .tei-body, the file the transform writes for a source without a
\* body division (.tei-body is empty), an empty file, no file
HtmlFiles == {"ok", "nodiv", "empty", "missing"}

\* what loadDocumentHTML leaves in the reading layer: the 'HTML not found'
\* paragraph when no candidate yields text, else srcBody.innerHTML
loadDocumentHTML(html) ==
    CASE html = "ok" -> "doc"
      [] html = "nodiv" -> "empty"
      [] OTHER -> "placeholder"

catchPerFile_missing == FALSE

\* the try / catch around each file's fetchXML (lines 1234-1260)
catchPerFile == TRUE

Calls == 1..MaxCalls

\* fetch(path) is issued for the file at position k
issueFetch(k) == [fetchCount EXCEPT ![Kinds[k]] = @ + 1]

\* loadStandoffFiles() up to its first await
StartLoad(c) ==
    IF alreadyLoaded(STANDOFF_INDEX)
    THEN /\ lpc' = [lpc EXCEPT ![c] = "done"]
         /\ lk' = [lk EXCEPT ![c] = 0]
         /\ UNCHANGED <<STANDOFF_INDEX, fetchCount, lentries>>
    ELSE /\ lpc' = [lpc EXCEPT ![c] = "fetch"]
         /\ lk' = [lk EXCEPT ![c] = 1]
         /\ lentries' = [lentries EXCEPT ![c] = <<>>]
         /\ fetchCount' = issueFetch(1)
         /\ UNCHANGED STANDOFF_INDEX

\* DOMContentLoaded: no file parameter, nothing happens
BootNoFile ==
    /\ bpc = "start"
    /\ ~fileParam
    /\ bpc' = "done"
    /\ UNCHANGED <<fileParam, htmlStatus, standoffFiles, readingLayer, tabsBound,
                   annotBound, consoleErrors, STANDOFF_INDEX, fetchCount, lpc, lk,
                   lentries>>
    /\ UNCHANGED <<textVars, cardVars, xsltVars, siteVars>>

\* DOMContentLoaded: await loadDocumentHTML(stem), then loadStandoffFiles()
\* is called and suspends at its first fetch
BootLoadDocument ==
    /\ bpc = "start"
    /\ fileParam
    /\ readingLayer' = loadDocumentHTML(htmlStatus)
    /\ StartLoad(1)
    /\ bpc' = "standoff"
    /\ UNCHANGED <<fileParam, htmlStatus, standoffFiles, tabsBound, annotBound,
                   consoleErrors>>
    /\ UNCHANGED <<textVars, cardVars, xsltVars, siteVars>>

\* a further call of loadStandoffFiles() by any later caller
CallLoadStandoff(c) ==
    /\ c # 1
    /\ bpc # "start"
    /\ lpc[c] = "none"
    /\ StartLoad(c)
    /\ UNCHANGED <<fileParam, htmlStatus, standoffFiles, bpc, readingLayer,
                   tabsBound, annotBound, consoleErrors>>
    /\ UNCHANGED <<textVars, cardVars, xsltVars, siteVars>>

\* the awaited fetchXML of call c settles; the call runs on to its next await
\* or, after the last file, builds the index and sets __loaded
FetchSettles(c) ==
    /\ lpc[c] = "fetch"
    /\ LET kind == Kinds[lk[c]]
           ok == standoffFiles[kind] # Failing
           got == entriesAfter(lentries[c], kind, ok)
       IN  IF ~ok /\ ~catchPerFile
           THEN /\ lpc' = [lpc EXCEPT ![c] = "threw"]
                /\ UNCHANGED <<STANDOFF_INDEX, fetchCount, lk, lentries>>
           ELSE IF lk[c] < Len(Kinds)
           THEN /\ lentries' = [lentries EXCEPT ![c] = got]
                /\ lk' = [lk EXCEPT ![c] = @ + 1]
                /\ fetchCount' = issueFetch(lk[c] + 1)
                /\ UNCHANGED <<STANDOFF_INDEX, lpc>>
           ELSE /\ lentries' = [lentries EXCEPT ![c] = got]
                /\ STANDOFF_INDEX' =
                      indexPut(indexEntries(STANDOFF_INDEX, got), LoadedKey, LoadedFlag)
                /\ lpc' = [lpc EXCEPT ![c] = "done"]
                /\ UNCHANGED <<fetchCount, lk>>
    /\ UNCHANGED <<fileParam, htmlStatus, standoffFiles, bpc, readingLayer,
                   tabsBound, annotBound, consoleErrors>>
    /\ UNCHANGED <<textVars, cardVars, xsltVars, siteVars>>

\* a boot handler that does not await loadStandoffFiles() before binding
BootResume_early ==
    /\ bpc = "standoff"
    /\ tabsBound' = TRUE
    /\ annotBound' = TRUE
    /\ bpc' = "done"
    /\ UNCHANGED <<fileParam, htmlStatus, standoffFiles, readingLayer,
                   consoleErrors, STANDOFF_INDEX, fetchCount, lpc, lk, lentries>>
    /\ UNCHANGED <<textVars, cardVars, xsltVars, siteVars>>

\* the boot handler resumes after await loadStandoffFiles(): the handlers are
\* bound, or the catch block logs what loadStandoffFiles threw
BootResume ==
    /\ bpc = "standoff"
    /\ lpc[1] \in {"done", "threw"}
    /\ IF lpc[1] = "threw"
       THEN /\ consoleErrors' = consoleErrors + 1
            /\ UNCHANGED <<tabsBound, annotBound>>
       ELSE /\ tabsBound' = TRUE
            /\ annotBound' = TRUE
            /\ UNCHANGED consoleErrors
    /\ bpc' = "done"
    /\ UNCHANGED <<fileParam, htmlStatus, standoffFiles, readingLayer,
                   STANDOFF_INDEX, fetchCount, lpc, lk, lentries>>
    /\ UNCHANGED <<textVars, cardVars, xsltVars, siteVars>>

\* the page before DOMContentLoaded, for a given server state
BootStart(fp, html, files) ==
    /\ fileParam = fp
    /\ htmlStatus = html
    /\ standoffFiles = files
    /\ bpc = "start"
    /\ readingLayer = "empty"
    /\ tabsBound = FALSE
    /\ annotBound = FALSE
    /\ consoleErrors = 0
    /\ STANDOFF_INDEX = EmptyIndex
    /\ fetchCount = [k \in {"persons", "places", "orgs", "events"} |-> 0]
    /\ lpc = [c \in Calls |-> "none"]
    /\ lk = [c \in Calls |-> 1]
    /\ lentries = [c \in Calls |-> <<>>]

BootQuiet == BootStart(TRUE, "ok", [k \in {"persons", "places", "orgs", "events"} |-> "ok"])

----------------------------------------------------------------------------
(* Strings of the annotation cards (viewer.js, second version) *)

\* characters outside ASCII are written by their code point
MiddleDot == "U+00B7"
EnDash == "U+2013"
EmDash == "U+2014"

\* the characters of the attribute values and literals the cards use
Chars(s) ==
    CASE s = "" -> <<>>
      [] s = "project" -> <<"p", "r", "o", "j", "e", "c", "t">>
      [] s = "geonames" -> <<"g", "e", "o", "n", "a", "m", "e", "s">>
      [] s = "viaf" -> <<"v", "i", "a", "f">>
      [] s = "a<b" -> <<"a", "<", "b">>
      [] s = "person" -> <<"p", "e", "r", "s", "o", "n">>
      [] s = "place" -> <<"p", "l", "a", "c", "e">>
      [] s = "org" -> <<"o", "r", "g">>
      [] s = "event" -> <<"e", "v", "e", "n", "t">>
      [] s = "unknown" -> <<"u", "n", "k", "n", "o", "w", "n">>
      [] s = "undefined" -> <<"u", "n", "d", "e", "f", "i", "n", "e", "d">>
      [] s = "Event " -> <<"E", "v", "e", "n", "t", " ">>
      [] s = "&amp;" -> <<"&", "a", "m", "p", ";">>
      [] s = "&lt;" -> <<"&", "l", "t", ";">>
      [] s = "&gt;" -> <<"&", "g", "t", ";">>
      [] s = "&quot;" -> <<"&", "q", "u", "o", "t", ";">>
      [] s = "&#39;" -> <<"&", "#", "3", "9", ";">>
      [] s = "https://carlamenegat.github.io/VarelaDigital/" ->
            <<"h", "t", "t", "p", "s", ":", "/", "/", "c", "a", "r", "l", "a", "m", "e", "n", "e", "g", "a", "t", ".", "g", "i", "t", "h", "u", "b", ".", "i", "o", "/">>
            \o <<"V", "a", "r", "e", "l", "a", "D", "i", "g", "i", "t", "a", "l", "/">>

\* String.prototype.replace(/c/g, r) for a one-character pattern
RECURSIVE replaceAll(_, _, _)
replaceAll(s, c, r) ==
    IF s = <<>> THEN <<>>
    ELSE (IF Head(s) = c THEN r ELSE <<Head(s)>>) \o replaceAll(Tail(s), c, r)

escapeHTML(s) ==
    replaceAll(replaceAll(replaceAll(replaceAll(replaceAll(s,
        "&", Chars("&amp;")), "<", Chars("&lt;")), ">", Chars("&gt;")),
        "\"", Chars("&quot;")), "'", Chars("&#39;"))

\* textOf(node): (node?.textContent || '').trim()
textOf(node) == trim(textContent(node))

normUnknown(v) ==
    LET s == trim(v)
    IN  IF s = <<>> \/ toLowerCase(s) = Chars("unknown") THEN <<>> ELSE s

\* kind -> path segment of buildProjectURI
projectSegment(kind) ==
    CASE kind = "org" -> Chars("org")
      [] kind = "place" -> Chars("place")
      [] kind = "event" -> Chars("event")
      [] OTHER -> Chars("person")

buildProjectURI(localId, kind) ==
    IF localId = <<>> THEN <<>>
    ELSE Chars("https://carlamenegat.github.io/VarelaDigital/")
            \o projectSegment(kind) \o <<"/">> \o localId

AllDigits(s) == \A i \in 1..Len(s) : s[i] \in Digits

DigitValue(c) ==
    CASE c = "0" -> 0 [] c = "1" -> 1 [] c = "2" -> 2 [] c = "3" -> 3 [] c = "4" -> 4
      [] c = "5" -> 5 [] c = "6" -> 6 [] c = "7" -> 7 [] c = "8" -> 8 [] c = "9" -> 9

DigitChar(n) ==
    CASE n = 0 -> "0" [] n = 1 -> "1" [] n = 2 -> "2" [] n = 3 -> "3" [] n = 4 -> "4"
      [] n = 5 -> "5" [] n = 6 -> "6" [] n = 7 -> "7" [] n = 8 -> "8" [] n = 9 -> "9"

\* parseInt(dd, 10) of two digits
parseInt2(dd) == 10 * DigitValue(dd[1]) + DigitValue(dd[2])

\* String(n) for 0 <= n <= 99
numberChars(n) ==
    IF n < 10 THEN <<DigitChar(n)>> ELSE <<DigitChar(n \div 10), DigitChar(n % 10)>>

months ==
    <<<<"j", "a", "n", "e", "i", "r", "o">>,
      <<"f", "e", "v", "e", "r", "e", "i", "r", "o">>,
      <<"m", "a", "r", "U+00E7", "o">>,
      <<"a", "b", "r", "i", "l">>,
      <<"m", "a", "i", "o">>,
      <<"j", "u", "n", "h", "o">>,
      <<"j", "u", "l", "h", "o">>,
      <<"a", "g", "o", "s", "t", "o">>,
      <<"s", "e", "t", "e", "m", "b", "r", "o">>,
      <<"o", "u", "t", "u", "b", "r", "o">>,
      <<"n", "o", "v", "e", "m", "b", "r", "o">>,
      <<"d", "e", "z", "e", "m", "b", "r", "o">>>>

\* `${months[i - 1]}`: the text "undefined" outside the array
monthText(i) == IF i \in 1..Len(months) THEN months[i] ELSE Chars("undefined")

\* s.match(/^(\d{4})(?:-(\d{2})(?:-(\d{2}))?)?$/): the groups, or <<>>
matchIsoDate(s) ==
    LET sub(a, b) == SubSeq(s, a, b)
    IN  IF Len(s) = 4 /\ AllDigits(s) THEN <<s, <<>>, <<>>>>
        ELSE IF Len(s) = 7 /\ AllDigits(sub(1, 4)) /\ s[5] = "-" /\ AllDigits(sub(6, 7))
        THEN <<sub(1, 4), sub(6, 7), <<>>>>
        ELSE IF Len(s) = 10 /\ AllDigits(sub(1, 4)) /\ s[5] = "-" /\ AllDigits(sub(6, 7))
                /\ s[8] = "-" /\ AllDigits(sub(9, 10))
        THEN <<sub(1, 4), sub(6, 7), sub(9, 10)>>
        ELSE <<>>

formatPtBRDate(iso) ==
    LET s == trim(iso)
        m == matchIsoDate(s)
    IN  IF s = <<>> THEN <<>>
        ELSE IF m = <<>> THEN <<>>
        ELSE IF m[3] # <<>>
        THEN numberChars(parseInt2(m[3])) \o <<" ">> \o monthText(parseInt2(m[2]))
                \o <<" ">> \o m[1]
        ELSE IF m[2] # <<>> THEN monthText(parseInt2(m[2])) \o <<" ">> \o m[1]
        ELSE m[1]

----------------------------------------------------------------------------
(* Annotation cards (viewer.js second version, and the copy in part_004) *)

\* the two copies of the viewer script that render annotation cards
Scripts == {"viewer.js", "part_004"}

\* String.prototype.toLowerCase on the element names the standoff files use
lowerName(ln) ==
    CASE ln = "persName" -> "persname"
      [] ln = "placeName" -> "placename"
      [] ln = "orgName" -> "orgname"
      [] ln = "eventName" -> "eventname"
      [] ln = "Note" -> "note"
      [] OTHER -> ln

\* the element descendants of a list of child nodes, in document order
RECURSIVE descendants(_)
descendants(ns) ==
    IF ns = <<>> THEN <<>>
    ELSE IF Head(ns).nodeType # "element" THEN descendants(Tail(ns))
    ELSE <<Head(ns)>> \o descendants(Head(ns).children) \o descendants(Tail(ns))

\* entry.getElementsByTagNameNS(TEI_NS, localName)
qAllLocal(entry, ln) ==
    SelectSeq(descendants(entry.children), LAMBDA n : n.ns = "tei" /\ n.localName = ln)

\* entry.getElementsByTagName(localName)
qAllAnyNS(entry, ln) ==
    SelectSeq(descendants(entry.children), LAMBDA n : n.localName = ln)

\* qAllLocal, and in viewer.js qAllAnyNS when that finds nothing
qAll(entry, ln, script) ==
    IF qAllLocal(entry, ln) # <<>> \/ script = "part_004" THEN qAllLocal(entry, ln)
    ELSE qAllAnyNS(entry, ln)

getLocalId(entry) == attr(entry, "xml:id")

getDirectChildNotes(entry, script) ==
    SelectSeq(entry.children,
              LAMBDA ch : /\ ch.nodeType = "element"
                          /\ IF script = "part_004"
                             THEN ch.ns = "tei" /\ ch.localName = "note"
                             ELSE lowerName(ch.localName) = "note")

\* a piece of card markup: a literal of the template, or an interpolated string
M(m) == [piece |-> "markup", m |-> m, t |-> <<>>]
T(t) == [piece |-> "text", m |-> "", t |-> t]

\* ${...}: an empty string adds nothing to the markup
Interp(t) == IF t = <<>> THEN <<>> ELSE <<T(t)>>

\* how a template interpolates a corpus string: through escapeHTML in
\* viewer.js, as it is in part_004
interpolate(s, script) == IF script = "viewer.js" THEN escapeHTML(s) ELSE s

\* names.join(sep)
RECURSIVE join(_, _)
join(ss, sep) ==
    IF ss = <<>> THEN <<>>
    ELSE IF Len(ss) = 1 THEN ss[1]
    ELSE ss[1] \o sep \o join(Tail(ss), sep)

\* the {type, value} records of the entry's idno elements
idnosOf(entry, script) ==
    LET ns == qAll(entry, "idno", script)
    IN  [i \in 1..Len(ns) |->
            [type |-> trim(Chars(ns[i].attrs.type)), value |-> textOf(ns[i])]]

\* <a href="${href}" target="_blank" rel="noopener">${href}</a></div>
idnoAnchor(href, script) ==
    <<M("<a href=\"")>> \o Interp(interpolate(href, script))
        \o <<M("\" target=\"_blank\" rel=\"noopener\">")>>
        \o Interp(interpolate(href, script)) \o <<M("</a></div>")>>

\* the part pushed for one identifier with a type and a value
idnoLink(x, script) ==
    <<M("<div class=\"annotation-idno small\"><strong>")>>
        \o Interp(interpolate(x.type, script)) \o <<M(":</strong>")>>
        \o idnoAnchor(x.value, script)

\* the part pushed for the project URI
projectLink(proj, script) ==
    <<M("<div class=\"annotation-idno small\"><strong>project:</strong>")>>
        \o idnoAnchor(proj, script)

RECURSIVE idnoLinks(_, _)
idnoLinks(xs, script) ==
    IF xs = <<>> THEN <<>>
    ELSE idnoLink(Head(xs), script) \o idnoLinks(Tail(xs), script)

geonamesNotSet ==
    <<M("<div class=\"annotation-idno small\"><strong>geonames:</strong> <span class=\"text-muted\">not set</span></div>")>>

notSetTypes_any(x) == x.type # <<>> /\ x.type # Chars("project")

\* the identifiers reported as 'not set' when their value is empty
notSetTypes(x) == x.type = Chars("geonames")

projectLinkWanted_fallbackOnly(hasProjectPlaceholder, nFiltered) == nFiltered = 0

\* if (hasProjectPlaceholder || filtered.length === 0)
projectLinkWanted(hasProjectPlaceholder, nFiltered) ==
    hasProjectPlaceholder \/ nFiltered = 0

renderIdnos(entry, kind, script) ==
    LET idnos == idnosOf(entry, script)
        hasProjectPlaceholder == \E i \in 1..Len(idnos) : idnos[i].type = Chars("project")
        filtered == SelectSeq(idnos, LAMBDA x : x.type # <<>> /\ x.type # Chars("project")
                                                /\ x.value # <<>>)
        geon == SelectSeq(idnos, notSetTypes)
        proj == buildProjectURI(getLocalId(entry), kind)
    IN  idnoLinks(filtered, script)
        \o (IF geon # <<>> /\ geon[1].value = <<>> THEN geonamesNotSet ELSE <<>>)
        \o (IF projectLinkWanted(hasProjectPlaceholder, Len(filtered)) /\ proj # <<>>
            THEN projectLink(proj, script)
            ELSE <<>>)

variantElement(kind) ==
    CASE kind = "person" -> "persName"
      [] kind = "place" -> "placeName"
      [] kind = "org" -> "orgName"
      [] OTHER -> ""

\* the non-empty texts of the entry's name elements
variantNames(entry, kind, script) ==
    LET ln == variantElement(kind)
        texts(ns) == SelectSeq([i \in 1..Len(ns) |-> textOf(ns[i])], LAMBDA t : t # <<>>)
    IN  IF ln = "" THEN <<>>
        ELSE IF texts(qAllLocal(entry, ln)) # <<>> \/ script = "part_004"
        THEN texts(qAllLocal(entry, ln))
        ELSE texts(qAllAnyNS(entry, ln))

\* if (names.length <= 1) return ""
variantsShown(names) == Len(names) > 1

renderVariants(entry, kind, script) ==
    LET names == variantNames(entry, kind, script)
    IN  IF ~variantsShown(names) THEN <<>>
        ELSE <<M("<div class=\"small text-muted mb-2\"><strong>Variants:</strong> ")>>
                \o Interp(interpolate(join(names, <<" ", MiddleDot, " ">>), script))
                \o <<M("</div>")>>

noAnnotation == <<M("<p class=\"text-muted small\">No annotation available.</p>")>>

\* getFirst(localName)
getFirst(entry, ln, script) ==
    LET nodes == qAll(entry, ln, script)
    IN  IF nodes # <<>> THEN textOf(nodes[1]) ELSE <<>>

\* qAllLocal(entry, ln)[0] || qAllAnyNS(entry, ln)[0], and its when attribute
whenOfFirst(entry, ln, script) ==
    LET nodes == qAll(entry, ln, script)
    IN  IF nodes # <<>> THEN nodes[1].attrs.when ELSE <<>>

noteShown_first(notes) == IF notes # <<>> THEN textOf(notes[1]) ELSE <<>>

\* directNotes.length ? textOf(directNotes[directNotes.length - 1]) : ""
noteShown(notes) == IF notes # <<>> THEN textOf(notes[Len(notes)]) ELSE <<>>

lifeDate_questionMark(raw) == IF normUnknown(raw) = <<>> THEN <<"?">> ELSE normUnknown(raw)

\* birth / death as the person card uses them
lifeDate(raw) == normUnknown(raw)

personExtra(entry, script) ==
    LET birth == lifeDate(whenOfFirst(entry, "birth", script))
        death == lifeDate(whenOfFirst(entry, "death", script))
    IN  IF birth = <<>> /\ death = <<>> THEN <<>>
        ELSE <<M("<div class=\"small text-muted mb-1\">")>>
                \o Interp(interpolate(birth, script))
                \o (IF birth # <<>> /\ death # <<>> THEN <<M(" U+2013 ")>> ELSE <<>>)
                \o Interp(interpolate(death, script)) \o <<M("</div>")>>

\* the historical placeName, else the first one (sample types are lower case)
placeTitle(entry, script) ==
    LET placeNames == qAll(entry, "placeName", script)
        historical == SelectSeq(placeNames, LAMBDA n : n.attrs.type = "historical")
    IN  IF historical # <<>> /\ textOf(historical[1]) # <<>> THEN textOf(historical[1])
        ELSE IF placeNames # <<>> THEN textOf(placeNames[1])
        ELSE <<>>

eventTitle(entry, localId, script) ==
    LET desc == getFirst(entry, "desc", script)
        name == IF script = "viewer.js" THEN getFirst(entry, "eventName", script) ELSE <<>>
    IN  OrElse(OrElse(desc, name), Chars("Event ") \o localId)

eventExtra(entry, script) ==
    LET when == whenOfFirst(entry, "date", script)
    IN  IF when = <<>> THEN <<>>
        ELSE <<M("<div class=\"small text-muted mb-1\">")>>
                \o Interp(interpolate(OrElse(formatPtBRDate(when), when), script))
                \o <<M("</div>")>>

renderStandoffEntryCard(entry, script) ==
    LET tag == lowerName(entry.localName)
        localId == getLocalId(entry)
        kind == IF script = "viewer.js" /\ tag = "eventname" THEN "event" ELSE tag
        isEvent == tag = "event" \/ (script = "viewer.js" /\ tag = "eventname")
        note == noteShown(getDirectChildNotes(entry, script))
        title == CASE tag = "person" -> getFirst(entry, "persName", script)
                   [] tag = "place" -> placeTitle(entry, script)
                   [] tag = "org" -> getFirst(entry, "orgName", script)
                   [] isEvent -> eventTitle(entry, localId, script)
                   [] OTHER -> <<>>
        extra == CASE tag = "person" -> personExtra(entry, script)
                   [] isEvent -> eventExtra(entry, script)
                   [] OTHER -> <<>>
        idnos == renderIdnos(entry, kind, script)
    IN  <<M("<div class=\"annotation-card\"><h6 class=\"annotation-title\">")>>
        \o Interp(interpolate(OrElse(OrElse(title, localId), <<EmDash>>), script))
        \o <<M("</h6>")>>
        \o extra
        \o renderVariants(entry, kind, script)
        \o (IF idnos # <<>> THEN <<M("<div class=\"mb-2\">")>> \o idnos \o <<M("</div>")>>
            ELSE <<>>)
        \o (IF note # <<>>
            THEN <<M("<p class=\"small mb-0\">")>> \o Interp(interpolate(note, script))
                    \o <<M("</p>")>>
            ELSE <<>>)
        \o <<M("</div>")>>

\* the card of a clicked span that carries data-when
dateCard(when, script) ==
    <<M("<div class=\"annotation-card\"><h6 class=\"annotation-title\">Date</h6><div class=\"small text-muted mb-2\">")>>
        \o Interp(interpolate(when, script))
        \o <<M("</div><p class=\"small mb-0\">")>>
        \o Interp(interpolate(OrElse(formatPtBRDate(when), when), script))
        \o <<M("</p></div>")>>

----------------------------------------------------------------------------
(* The annotation click handler *)

\* STANDOFF_INDEX[id] of an absent key
NoEntry == [nodeType |-> "undefined"]

NoClick == [ref |-> <<>>, when |-> <<>>, id |-> <<>>, entry |-> NoEntry]

lookup(index, id) == IF id \in DOMAIN index THEN index[id] ELSE NoEntry

cardOutcome_noGuard(entry, sc) ==
    IF entry.nodeType # "element" THEN [threw |-> TRUE, html |-> <<>>]
    ELSE [threw |-> FALSE, html |-> renderStandoffEntryCard(entry, sc)]

\* renderStandoffEntryCard(entry) for any value the index lookup yields: the
\* message for no entry, a TypeError in getLocalId for a value that is not an
\* element (getAttributeNS is not a function), the card otherwise
cardOutcome(entry, sc) ==
    IF entry = NoEntry THEN [threw |-> FALSE, html |-> noAnnotation]
    ELSE IF entry.nodeType # "element" THEN [threw |-> TRUE, html |-> <<>>]
    ELSE [threw |-> FALSE, html |-> renderStandoffEntryCard(entry, sc)]

\* the document click handler of setupAnnotationBehaviour, for a click inside
\* a span.annotated with the given data-ref and data-when
ClickAnnotated(span) ==
    /\ annotBound
    /\ IF span.ref # <<>>
       THEN LET id == refKey(span.ref)
                entry == lookup(STANDOFF_INDEX, id)
            IN  /\ lastClick' = [ref |-> span.ref, when |-> span.when, id |-> id,
                                 entry |-> entry]
                /\ annotOpen' = TRUE
                /\ boxHidden' = FALSE
                /\ lastTarget' = "ref"
                /\ handlerThrew' = cardOutcome(entry, pageScript).threw
                /\ annotContent' = IF cardOutcome(entry, pageScript).threw
                                   THEN annotContent
                                   ELSE cardOutcome(entry, pageScript).html
       ELSE IF span.when # <<>>
       THEN /\ lastClick' = [ref |-> span.ref, when |-> span.when, id |-> <<>>,
                             entry |-> NoEntry]
            /\ annotOpen' = TRUE
            /\ boxHidden' = FALSE
            /\ lastTarget' = "when"
            /\ annotContent' = dateCard(trim(span.when), pageScript)
            /\ handlerThrew' = FALSE
       ELSE /\ lastTarget' = "inert"
            /\ UNCHANGED <<lastClick, annotOpen, boxHidden, annotContent,
                           handlerThrew>>
    /\ UNCHANGED <<pageScript, textVars, bootVars, xsltVars, siteVars>>

\* the same handler for a click outside every span.annotated: closest() finds
\* no span and the handler returns
ClickOutside ==
    /\ annotBound
    /\ lastTarget' = "outside"
    /\ UNCHANGED <<lastClick, annotOpen, boxHidden, annotContent, handlerThrew>>
    /\ UNCHANGED <<pageScript, textVars, bootVars, xsltVars, siteVars>>

\* a close button that hides the box and leaves its content
CloseAnnotations_keepsContent ==
    /\ annotBound
    /\ boxHidden' = TRUE
    /\ annotOpen' = FALSE
    /\ lastTarget' = "close"
    /\ handlerThrew' = FALSE
    /\ lastClick' = NoClick
    /\ UNCHANGED <<pageScript, annotContent, textVars, bootVars, xsltVars,
                   siteVars>>

\* click on the close button
CloseAnnotations ==
    /\ annotBound
    /\ boxHidden' = TRUE
    /\ annotOpen' = FALSE
    /\ annotContent' = <<>>
    /\ lastTarget' = "close"
    /\ handlerThrew' = FALSE
    /\ lastClick' = NoClick
    /\ UNCHANGED <<pageScript, textVars, bootVars, xsltVars, siteVars>>

\* the annotation panel before any click, in a page running the given script
CardStart(sc) ==
    /\ pageScript = sc
    /\ annotOpen = FALSE
    /\ boxHidden = TRUE
    /\ lastTarget = "none"
    /\ annotContent = <<>>
    /\ lastClick = NoClick
    /\ handlerThrew = FALSE

CardQuiet == CardStart("viewer.js")

----------------------------------------------------------------------------
(* Standoff entries and clicked spans given to the click handler *)

Id_js == <<"j", "o", "a", "o", "_", "s", "i", "l", "v", "a">>
Id_quote == <<"o", "'", "1">>
Name_A == <<"A", "n", "a">>
Name_B == <<"B", "i", "a">>
Name_lt == <<"a", "<", "b">>
Note_1 == <<"n", "1">>
Note_2 == <<"n", "2">>
Note_amp == <<"x", "&", "y">>
Uri_v == <<"v", ":", "1">>
Uri_quoted == <<"\"", "u", "\"">>
When_1834 == <<"1", "8", "3", "4">>
When_day == <<"1", "8", "3", "5", "-", "0", "9", "-", "2", "0">>
When_month13 == <<"1", "8", "3", "5", "-", "1", "3">>
When_lt == <<"<", "1", "8", "3", "4", ">">>
When_Unknown == <<"U", "n", "k", "n", "o", "w", "n">>

Named(ln, text) == Tei(ln, NoAttrs, IF text = <<>> THEN <<>> ELSE <<TextNode(text)>>)
Idno(type, value) ==
    Tei("idno", [NoAttrs EXCEPT !.type = type],
        IF value = <<>> THEN <<>> ELSE <<TextNode(value)>>)
Dated(ln, when) == Tei(ln, [NoAttrs EXCEPT !.when = when], <<>>)
CardEntry(ln, id, ch) == Tei(ln, [NoAttrs EXCEPT !.id = id], ch)

LifeValues == {<<>>, Chars("unknown"), When_Unknown, When_1834}

PersonsWithLife ==
    {CardEntry("person", Id_js, <<Named("persName", Name_A), Dated("birth", b),
                                  Dated("death", d)>>) : b \in LifeValues, d \in LifeValues}

IdnoLists ==
    {<<>>,
     <<Idno("project", <<>>)>>,
     <<Idno("viaf", Uri_v)>>,
     <<Idno("viaf", <<>>)>>,
     <<Idno("geonames", <<>>)>>,
     <<Idno("geonames", Uri_v)>>,
     <<Idno("project", <<>>), Idno("viaf", Uri_v)>>,
     <<Idno("viaf", <<>>), Idno("geonames", <<>>)>>,
     <<Idno("", Uri_v)>>,
     <<Idno("a<b", Uri_quoted)>>}

EntriesWithIdnos ==
    {CardEntry(ln, Id_js, <<Named("persName", Name_A)>> \o ids) :
        ln \in {"person", "place", "org", "event"}, ids \in IdnoLists}

State(ch) == Tei("state", NoAttrs, ch)

NoteLists ==
    {<<Named("note", Note_1)>>,
     <<Named("note", Note_1), Named("note", Note_2)>>,
     <<State(<<Named("note", Note_2)>>)>>,
     <<Named("note", Note_1), State(<<Named("note", Note_2)>>)>>,
     <<State(<<Named("note", Note_2)>>), Named("note", Note_1)>>,
     <<Named("note", Note_1), Named("note", <<>>)>>,
     <<Named("Note", Note_1)>>,
     <<Elem("", "note", NoAttrs, <<TextNode(Note_2)>>)>>,
     <<Named("note", Note_amp)>>}

EntriesWithNotes ==
    {CardEntry("person", Id_js, <<Named("persName", Name_A)>> \o ns) : ns \in NoteLists}

NameLists ==
    {<<>>, <<Name_A>>, <<Name_A, Name_A>>, <<Name_A, Name_B>>, <<Name_A, <<>>>>,
     <<Name_A, Name_B, Name_A>>, <<Name_lt, Name_B>>}

EntriesWithNames ==
    {CardEntry("person", Id_js, [i \in 1..Len(ns) |-> Named("persName", ns[i])]) :
        ns \in NameLists}
    \cup {CardEntry("org", Id_js, [i \in 1..Len(ns) |-> Named("orgName", ns[i])]) :
            ns \in NameLists}

OtherEntries ==
    {CardEntry("person", Id_quote, <<Named("persName", Name_lt)>>),
     Entry("", "org", <<>>, Id_js),
     CardEntry("place", Id_js, <<Named("placeName", Name_A),
                                 Tei("placeName", [NoAttrs EXCEPT !.type = "historical"],
                                     <<TextNode(Name_B)>>)>>),
     CardEntry("event", Id_js, <<Named("desc", Name_A), Dated("date", When_day)>>),
     CardEntry("event", Id_js, <<Dated("date", When_lt)>>),
     CardEntry("eventName", Id_js, <<TextNode(Name_B), Dated("date", When_month13)>>)}

CardEntries ==
    PersonsWithLife \cup EntriesWithIdnos \cup EntriesWithNotes \cup EntriesWithNames
        \cup OtherEntries

\* the elements the loader of a script indexes: part_004 selects tei:person,
\* tei:place, tei:org, tei:event and keys them by xml:id only
indexedBy(e, sc) ==
    IF sc = "viewer.js" THEN entryId(e) # <<>>
    ELSE e.ns = "tei" /\ e.localName \in {"person", "place", "org", "event"}
         /\ getLocalId(e) # <<>>

\* the standoff index a completed loadStandoffFiles leaves for the entries
builtIndex(es) ==
    indexPut(indexEntries(EmptyIndex, [i \in 1..Len(es) |-> [kind |-> "", node |-> es[i]]]),
             LoadedKey, LoadedFlag)

Id_absent == <<"z", "z">>

\* data-ref values of clicked spans: for each key of the index the key with a
\* leading '#', the bare key, and the key with a '#' after its first character
ClickRefs(index) ==
    UNION {{<<"#">> \o k, k, <<Head(k), "#">> \o Tail(k)} : k \in DOMAIN index}
        \cup {<<"#">> \o Id_absent, <<"#">>, <<"#", "#">> \o Id_js}

ClickWhens == {When_1834, When_day, When_month13, When_lt, <<" ">>}

ClickSpans(index) ==
    {[ref |-> r, when |-> <<>>] : r \in ClickRefs(index)}
        \cup {[ref |-> <<>>, when |-> w] : w \in ClickWhens}
        \cup {[ref |-> <<"#">> \o Id_js, when |-> When_1834]}

----------------------------------------------------------------------------
(* renderText and its callers *)

\* renderText up to the first iteration of sliceBySurface's loop
BeginRenderText(doc, surfs, target) ==
    IF ~doc.hasDiv
    THEN /\ layer' = <<>>
         /\ pc' = "idle"
         /\ UNCHANGED <<kids, si, activeSurface, buckets, wanted, result>>
    ELSE /\ kids' = collectTopLevelElementNodes(doc.body)
         /\ wanted' = OrElse(normalizeFolio(target), First(surfs))
         /\ activeSurface' = initialSurface(surfs)
         /\ buckets' = ensureAll(<<>>, surfs)
         /\ si' = 1
         /\ result' = <<>>
         /\ layer' = <<>>
         /\ pc' = "slice"

\* DOMContentLoaded: readSurfaces, renderViewer
Boot ==
    /\ pc = "boot"
    /\ SURFACES' = readSurfaces(teiDoc)
    /\ CURRENT_SURFACE' = OrElse(First(SURFACES'), <<>>)
    /\ BeginRenderText(teiDoc, SURFACES', CURRENT_SURFACE')
    /\ UNCHANGED <<teiDoc, VIEW_MODE>>
    /\ UNCHANGED <<bootVars, cardVars, xsltVars, siteVars>>

\* click on a view tab
TabClick(view) ==
    /\ pc = "idle"
    /\ VIEW_MODE' = view
    /\ BeginRenderText(teiDoc, SURFACES, CURRENT_SURFACE)
    /\ UNCHANGED <<teiDoc, SURFACES, CURRENT_SURFACE>>
    /\ UNCHANGED <<bootVars, cardVars, xsltVars, siteVars>>

\* change of the surface selector
SurfaceChange(s) ==
    /\ pc = "idle"
    /\ CURRENT_SURFACE' = s
    /\ BeginRenderText(teiDoc, SURFACES, s)
    /\ UNCHANGED <<teiDoc, SURFACES, VIEW_MODE>>
    /\ UNCHANGED <<bootVars, cardVars, xsltVars, siteVars>>

\* one iteration of the loop over kids
SliceStep ==
    /\ pc = "slice"
    /\ si <= Len(kids)
    /\ LET n == kids[si]
       IN  /\ buckets' = IF isMarker(n) THEN buckets
                         ELSE bucketPush(buckets, sliceKey(n, activeSurface), si)
           /\ activeSurface' = sliceNextSurface(n, activeSurface)
    /\ si' = si + 1
    /\ UNCHANGED <<teiDoc, VIEW_MODE, SURFACES, CURRENT_SURFACE, pc, kids,
                   wanted, result, layer>>
    /\ UNCHANGED <<bootVars, cardVars, xsltVars, siteVars>>

\* return buckets.get(wanted) || [], and renderText renders what is returned
SliceReturn ==
    /\ pc = "slice"
    /\ si > Len(kids)
    /\ result' = bucketGet(buckets, wanted)
    /\ layer' = renderChildren([j \in 1..Len(result') |-> kids[result'[j]]], VIEW_MODE)
    /\ pc' = "idle"
    /\ UNCHANGED <<teiDoc, VIEW_MODE, SURFACES, CURRENT_SURFACE, kids, si,
                   activeSurface, buckets, wanted>>
    /\ UNCHANGED <<bootVars, cardVars, xsltVars, siteVars>>

InitText ==
    /\ teiDoc \in Docs
    /\ VIEW_MODE = "reading"
    /\ SURFACES = <<>>
    /\ CURRENT_SURFACE = <<>>
    /\ pc = "boot"
    /\ kids = <<>>
    /\ si = 1
    /\ activeSurface = Undefined
    /\ buckets = <<>>
    /\ wanted = Undefined
    /\ result = <<>>
    /\ layer = <<>>
    /\ BootQuiet
    /\ CardQuiet
    /\ XsltQuiet
    /\ SiteQuiet

NextText ==
    \/ Boot
    \/ \E view \in Modes : TabClick(view)
    \/ \E k \in 1..Len(SURFACES) : SurfaceChange(SURFACES[k])
    \/ SliceStep
    \/ SliceReturn

SpecText == InitText /\ [][NextText]_vars

----------------------------------------------------------------------------
(* Properties of sliceBySurface *)

RECURSIVE concatBuckets(_)
concatBuckets(b) ==
    IF b = <<>> THEN <<>> ELSE Head(b).items \o concatBuckets(Tail(b))

Occurrences(seq, x) == Cardinality({j \in 1..Len(seq) : seq[j] = x})

\* indices of the content children (everything but the markers), ascending
ContentIdx == {i \in 1..Len(kids) : ~isMarker(kids[i])}

RECURSIVE Ascending(_)
Ascending(S) ==
    IF S = {} THEN <<>>
    ELSE LET m == CHOOSE x \in S : \A y \in S : x <= y
         IN  <<m>> \o Ascending(S \ {m})

WalkDone == pc = "slice" /\ si > Len(kids)

InBucket(i, key) ==
    \E k \in 1..Len(buckets) :
        /\ buckets[k].key = key
        /\ \E j \in 1..Len(buckets[k].items) : buckets[k].items[j] = i

\* content children in front of the first marker
BeforeFirstMarker(i) ==
    /\ i \in ContentIdx
    /\ \A j \in 1..(i - 1) : ~isMarker(kids[j])

PlaceFolio(n) == extractFolioFromPlace(attr(n, "place"))

\* C7 as stated: once the walk is over, the buckets concatenated in the order
\* of the Map give the content children in their original order.
C7_OrderedConcat ==
    WalkDone => concatBuckets(buckets) = Ascending(ContentIdx)

\* C7, amended: at every step of the walk each content child already visited
\* is in exactly one bucket, exactly once, no marker and no unvisited child is
\* in any bucket, and inside each bucket the children keep their original
\* relative order.
C7_Partition ==
    /\ \A i \in 1..Len(kids) :
          Occurrences(concatBuckets(buckets), i)
            = IF i < si /\ i \in ContentIdx THEN 1 ELSE 0
    /\ \A k \in 1..Len(buckets) :
          \A a, b \in 1..Len(buckets[k].items) :
              a < b => buckets[k].items[a] < buckets[k].items[b]
    /\ Len(concatBuckets(buckets)) = Cardinality({i \in ContentIdx : i < si})

C7_Witness ==
    /\ WalkDone
    /\ Len(kids) >= 3
    /\ \E i \in 1..Len(kids) : isMarker(kids[i])
    /\ Cardinality({k \in 1..Len(buckets) : buckets[k].items # <<>>}) >= 2
    /\ concatBuckets(buckets) # Ascending(ContentIdx)

\* C8 as stated: with a declared surface, every content child in front of the
\* first marker is in the bucket of the first declared surface, and is
\* returned when that surface is requested.
C8_FirstSurface ==
    (SURFACES # <<>> /\ pc # "boot") =>
        \A i \in 1..Len(kids) :
            (i < si /\ BeforeFirstMarker(i)) =>
                /\ InBucket(i, SURFACES[1])
                /\ (pc = "idle" /\ wanted = SURFACES[1]) =>
                      \E j \in 1..Len(result) : result[j] = i

\* C8, amended: with a declared surface, every content child in front of the
\* first marker, other than an endorsement note whose place attribute holds a
\* folio code, is in the bucket of the first declared surface and is returned
\* when that surface is requested; no child is ever under an undefined key.
C8_FirstSurfaceButPlacedNotes ==
    (SURFACES # <<>> /\ pc # "boot") =>
        /\ \A i \in 1..Len(kids) :
              (/\ i < si
               /\ BeforeFirstMarker(i)
               /\ ~(isEndorsement(kids[i]) /\ PlaceFolio(kids[i]) # <<>>)) =>
                  /\ InBucket(i, SURFACES[1])
                  /\ (pc = "idle" /\ wanted = SURFACES[1]) =>
                        \E j \in 1..Len(result) : result[j] = i
        /\ \A k \in 1..Len(buckets) : buckets[k].key # Undefined

C8_Witness ==
    /\ SURFACES # <<>>
    /\ pc = "idle"
    /\ wanted = SURFACES[1]
    /\ Len(kids) >= 2
    /\ BeforeFirstMarker(1)
    /\ \E m \in 2..Len(kids) : isMarker(kids[m])
    /\ \E j \in 1..Len(result) : result[j] = 1

\* the bucket seeded by the first marker that names a surface
FirstSeededKey ==
    LET named == {m \in 1..Len(kids) :
                    isMarker(kids[m]) /\ sliceNextSurface(kids[m], Undefined) # Undefined}
    IN  IF named = {} THEN Undefined
        ELSE sliceNextSurface(kids[CHOOSE m \in named : \A x \in named : m <= x],
                              Undefined)

\* C9 as stated: with no declared surface, at every step of the walk each
\* content child is stored under a surface identifier, never under an
\* undefined or empty key, and a call that requests no surface returns the
\* bucket seeded by the first marker.
C9_FirstMarkerSeeds ==
    (SURFACES = <<>> /\ pc # "boot" /\ teiDoc.hasDiv) =>
        /\ \A k \in 1..Len(buckets) :
              buckets[k].items # <<>> =>
                  (buckets[k].key # Undefined /\ buckets[k].key # <<>>)
        /\ (pc = "idle" /\ CURRENT_SURFACE = <<>>) =>
              result = bucketGet(buckets, FirstSeededKey)

\* C10: the loop step that handles an endorsement note pushes it to the bucket
\* named by the folio code of its place attribute, or to the bucket of the
\* active surface when the attribute holds none, touches no other bucket and
\* leaves the active surface as it was.
C10_EndorsementPlacement ==
    [][(pc = "slice" /\ si <= Len(kids) /\ isEndorsement(kids[si])) =>
         LET fol == PlaceFolio(kids[si])
             key == IF fol # <<>> THEN fol ELSE activeSurface
         IN  /\ activeSurface' = activeSurface
             /\ hasKey(buckets', key)
             /\ bucketGet(buckets', key) = Append(bucketGet(buckets, key), si)
             /\ \A k \in 1..Len(buckets) :
                   buckets[k].key # key => buckets'[k] = buckets[k]
             /\ Len(buckets') = Len(ensure(buckets, key))
      ]_vars

C10_Witness ==
    /\ pc = "slice"
    /\ \E i \in 1..Len(kids) : \E j \in 1..Len(kids) :
          /\ i < j /\ j < si
          /\ isEndorsement(kids[i])
          /\ PlaceFolio(kids[i]) # <<>>
          /\ PlaceFolio(kids[i]) # activeSurface
          /\ InBucket(i, PlaceFolio(kids[i]))
          /\ ~isMarker(kids[j]) /\ ~isEndorsement(kids[j])
          /\ InBucket(j, activeSurface)
          /\ \A m \in 1..Len(kids) : ~isMarker(kids[m])

----------------------------------------------------------------------------
(* Properties of renderNode *)

\* the document is one node, rendered and shown
Shown(node) ==
    /\ pc = "idle"
    /\ teiDoc.hasDiv
    /\ teiDoc.body = <<node>>

IsChoice(node) == node.nodeType = "element" /\ node.localName = "choice"

HasChild(node, ln) == teiChildren(node, ln) # <<>>

\* C4 as stated: in reading mode a choice renders as its expan child when it
\* has one, else as its abbr child when it has one, else as all its children.
C4_ReadingFallback ==
    \A c \in ChoiceNodes :
        (Shown(c) /\ VIEW_MODE = "reading") =>
            layer = IF HasChild(c, "expan")
                    THEN renderNode(teiChildren(c, "expan")[1], "reading")
                    ELSE IF HasChild(c, "abbr")
                    THEN renderNode(teiChildren(c, "abbr")[1], "reading")
                    ELSE renderChildren(c.children, "reading")

IsEntity(node) ==
    node.nodeType = "element" /\ node.localName \in {"persName", "placeName", "orgName"}

\* X of a ref attribute written '#X', X an identifier; "" otherwise
RefIdentifier(node) ==
    LET r == node.attrs.ref
    IN  IF /\ Len(r) >= 2
           /\ r[1] = "#"
           /\ \A i \in 2..Len(r) : r[i] # "#" /\ ~IsSpace(r[i])
        THEN Tail(r) ELSE <<>>

RECURSIVE outLeaves(_)
outLeaves(out) ==
    IF out = <<>> THEN <<>>
    ELSE (IF Head(out).tag = "#text" THEN <<Head(out).text>>
          ELSE outLeaves(Head(out).children)) \o outLeaves(Tail(out))

\* the alternative of a choice that reading mode selects: the expan child,
\* else the abbr child, else every child
SelectedAlternative(c) ==
    IF HasChild(c, "expan") THEN <<teiChildren(c, "expan")[1]>>
    ELSE IF HasChild(c, "abbr") THEN <<teiChildren(c, "abbr")[1]>>
    ELSE c.children

\* the texts of the text nodes of a subtree that the walk has to keep: all of
\* them, but those outside the selected alternative of a choice in reading
\* mode and those of a folio segment in reading mode
RECURSIVE keptLeaves(_, _)
keptLeaves(ns, mode) ==
    IF ns = <<>> THEN <<>>
    ELSE LET n == Head(ns)
         IN  (CASE n.nodeType = "text" -> <<n.text>>
                [] n.nodeType # "element" -> <<>>
                [] IsChoice(n) /\ mode = "reading" ->
                     keptLeaves(SelectedAlternative(n), mode)
                [] n.localName = "seg" /\ n.attrs.type = "folio" /\ mode = "reading" -> <<>>
                [] OTHER -> keptLeaves(n.children, mode))
             \o keptLeaves(Tail(ns), mode)

\* xs can be obtained from ys by deleting members
RECURSIVE IsSubsequence(_, _)
IsSubsequence(xs, ys) ==
    IF xs = <<>> THEN TRUE
    ELSE IF ys = <<>> THEN FALSE
    ELSE IF Head(xs) = Head(ys) THEN IsSubsequence(Tail(xs), Tail(ys))
    ELSE IsSubsequence(xs, Tail(ys))

\* a paragraph that holds the node between two text nodes
InParagraph(n) == Tei("p", NoAttrs, <<T_a, n, T_b>>)

\* an element renderNode has no case for
IsUnmapped(n) ==
    n.nodeType = "element" /\ n.localName \in {"foreign", "hi", "comment", "abbr", "expan"}

\* C19: the rendering walk drops no content: in every view mode the text
\* nodes of the input, but those outside the selected alternative of a choice
\* and those of a folio segment in reading mode, appear in the output in
\* document order, and an element without a mapping of its own becomes a
\* plain span that holds the rendering of all its children.
C19_NoContentDropped ==
    \A n \in InlineNodes :
        Shown(InParagraph(n)) =>
            /\ IsSubsequence(keptLeaves(<<InParagraph(n)>>, VIEW_MODE), outLeaves(layer))
            /\ IsUnmapped(n) =>
                  layer[1].children[2] =
                      OutEl("span", "", <<>>, <<>>, <<>>,
                            renderChildren(n.children, VIEW_MODE))

----------------------------------------------------------------------------
(* The boot specification *)

TextQuiet ==
    /\ teiDoc = [facsimile |-> <<>>, hasDiv |-> FALSE, body |-> <<>>]
    /\ VIEW_MODE = "reading"
    /\ SURFACES = <<>>
    /\ CURRENT_SURFACE = <<>>
    /\ pc = "boot"
    /\ kids = <<>>
    /\ si = 1
    /\ activeSurface = Undefined
    /\ buckets = <<>>
    /\ wanted = Undefined
    /\ result = <<>>
    /\ layer = <<>>

InitBoot ==
    /\ \E fp \in BOOLEAN : \E html \in HtmlFiles : \E files \in StandoffWorlds :
          BootStart(fp, html, files)
    /\ TextQuiet
    /\ CardQuiet
    /\ XsltQuiet
    /\ SiteQuiet

NextBoot ==
    \/ BootNoFile
    \/ BootLoadDocument
    \/ \E c \in Calls : CallLoadStandoff(c)
    \/ \E c \in Calls : FetchSettles(c)
    \/ BootResume

SpecBoot == InitBoot /\ [][NextBoot]_vars

----------------------------------------------------------------------------
(* Properties of the standoff loader and of the boot sequence *)

Loaded == \E c \in Calls : lpc[c] = "done"

\* the element nodes the files that load contribute, in STANDOFF_FILES order
LoadedNodes ==
    LET nodesOf(k) == IF standoffFiles[Kinds[k]] = Failing THEN <<>>
                      ELSE foundByTags(StandoffDoc(Kinds[k]), selectors(Kinds[k]))
    IN  nodesOf(1) \o nodesOf(2) \o nodesOf(3) \o nodesOf(4)

LoadedIds == {entryId(LoadedNodes[i]) : i \in 1..Len(LoadedNodes)} \ {<<>>}

\* the entry a merge of the loaded files keeps for an id: the last one
LastWithId(id) ==
    LET at == {i \in 1..Len(LoadedNodes) : entryId(LoadedNodes[i]) = id}
    IN  LoadedNodes[CHOOSE i \in at : \A j \in at : j <= i]

IndexIds == (DOMAIN STANDOFF_INDEX) \ {LoadedKey}

PrimaryLoads == fileParam /\ htmlStatus = "ok"

----------------------------------------------------------------------------
(* The offline transform specification *)

InitXslt ==
    /\ xmlSource \in XsltSources
    /\ htmlFile = NotBuilt
    /\ TextQuiet
    /\ BootQuiet
    /\ CardQuiet
    /\ SiteQuiet

NextXslt ==
    \/ RunTransform

SpecXslt == InitXslt /\ [][NextXslt]_vars

----------------------------------------------------------------------------
(* The annotation panel specification *)

\* text variables of a booted page that shows a document without a body div
TextIdle ==
    /\ teiDoc = [facsimile |-> <<>>, hasDiv |-> FALSE, body |-> <<>>]
    /\ VIEW_MODE = "reading"
    /\ SURFACES = <<>>
    /\ CURRENT_SURFACE = <<>>
    /\ pc = "idle"
    /\ kids = <<>>
    /\ si = 1
    /\ activeSurface = Undefined
    /\ buckets = <<>>
    /\ wanted = Undefined
    /\ result = <<>>
    /\ layer = <<>>

\* boot variables after a boot whose loader indexed the given entries; with no
\* entry, after a boot whose four standoff files failed
BootDone(es) ==
    /\ fileParam = TRUE
    /\ htmlStatus = "ok"
    /\ standoffFiles = [k \in {"persons", "places", "orgs", "events"} |->
                            IF es = <<>> THEN Failing ELSE "ok"]
    /\ bpc = "done"
    /\ readingLayer = "doc"
    /\ tabsBound = TRUE
    /\ annotBound = TRUE
    /\ consoleErrors = 0
    /\ STANDOFF_INDEX = builtIndex(es)
    /\ fetchCount = [k \in {"persons", "places", "orgs", "events"} |-> 1]
    /\ lpc = [c \in Calls |-> IF c = 1 THEN "done" ELSE "none"]
    /\ lk = [c \in Calls |-> IF c = 1 THEN Len(Kinds) ELSE 1]
    /\ lentries = [c \in Calls |-> IF c = 1
                                  THEN [i \in 1..Len(es) |-> [kind |-> "", node |-> es[i]]]
                                  ELSE <<>>]

InitCard ==
    /\ \E sc \in Scripts :
         /\ CardStart(sc)
         /\ \/ BootDone(<<>>)
            \/ \E e \in CardEntries : indexedBy(e, sc) /\ BootDone(<<e>>)
    /\ TextIdle
    /\ XsltQuiet
    /\ SiteQuiet

NextCard ==
    \/ \E span \in ClickSpans(STANDOFF_INDEX) : ClickAnnotated(span)
    \/ CloseAnnotations

SpecCard == InitCard /\ [][NextCard]_vars

----------------------------------------------------------------------------
(* Properties of the click handler and of the annotation cards *)

\* a click on a span with a data-ref has been handled and the panel answers it
RefClicked == lastClick.ref # <<>>

\* a reference with one leading '#' removed, and unchanged otherwise
stripLeadingHash(r) == IF r # <<>> /\ Head(r) = "#" THEN Tail(r) ELSE r

\* C11: the click handler looks the reference up under the key obtained by
\* removing a leading '#' only (a '#' elsewhere is kept) and gets the entry
\* stored under that key, or none.
C11_LeadingHashOnly ==
    RefClicked =>
        /\ lastClick.id = stripLeadingHash(lastClick.ref)
        /\ lastClick.entry = lookup(STANDOFF_INDEX, stripLeadingHash(lastClick.ref))

CardShown == RefClicked /\ lastClick.entry.nodeType = "element"

Clicked == lastClick.entry

\* the interpolated string that follows the i-th piece, if any
TextAfter(c, i) == IF i < Len(c) /\ c[i + 1].piece = "text" THEN c[i + 1].t ELSE <<>>

\* the interpolated strings that follow each occurrence of a template literal
TextsAfter(c, lit) ==
    LET idx == SelectSeq([i \in 1..Len(c) |-> i], LAMBDA i : c[i].m = lit)
    IN  [j \in 1..Len(idx) |-> TextAfter(c, idx[j])]

HasLiteral(c, lit) == \E i \in 1..Len(c) : c[i].m = lit

\* the targets of the links of the card
Hrefs(c) == TextsAfter(c, "<a href=\"")

\* the idno elements of an entry, and those that carry an external identifier
IdnoElems(e) == SelectSeq(descendants(e.children), LAMBDA n : n.localName = "idno")

IsExternal(x) ==
    /\ Chars(x.attrs.type) \notin {<<>>, Chars("project")}
    /\ trim(textContent(x)) # <<>>

IsPlaceholder(x) == Chars(x.attrs.type) = Chars("project")

HasExternal(e) == \E i \in 1..Len(IdnoElems(e)) : IsExternal(IdnoElems(e)[i])

HasPlaceholder(e) == \E i \in 1..Len(IdnoElems(e)) : IsPlaceholder(IdnoElems(e)[i])

\* the kind of an entry element
EntryKind(e) == IF e.localName = "eventName" THEN "event" ELSE e.localName

\* the project-namespaced URI of an entry, as it stands in the card markup
ProjectURI(e) ==
    interpolate(Chars("https://carlamenegat.github.io/VarelaDigital/")
                    \o Chars(EntryKind(e)) \o <<"/">> \o trim(e.attrs.id),
                pageScript)

HasProjectLink(c) == HasLiteral(c, "<div class=\"annotation-idno small\"><strong>project:</strong>")

NotSetTypes(c) ==
    IF HasLiteral(c, geonamesNotSet[1].m) THEN {Chars("geonames")} ELSE {}

\* the types of the identifiers of an entry that have a type other than the
\* project placeholder and an empty value
EmptyExternalTypes(e) ==
    {trim(Chars(IdnoElems(e)[i].attrs.type)) : i \in 1..Len(IdnoElems(e))}
        \ ({<<>>, Chars("project")}
            \cup {trim(Chars(IdnoElems(e)[i].attrs.type)) :
                    i \in {j \in 1..Len(IdnoElems(e)) :
                              trim(textContent(IdnoElems(e)[j])) # <<>>}})

\* the type labels of the identifier rows of the card, in order
IdnoLabels(c) == TextsAfter(c, "<div class=\"annotation-idno small\"><strong>")

\* the {type, value} pairs of the identifiers of an entry, in document order
IdnoPairs(e) ==
    [i \in 1..Len(IdnoElems(e)) |->
        [type |-> trim(Chars(IdnoElems(e)[i].attrs.type)),
         value |-> trim(textContent(IdnoElems(e)[i]))]]

\* the first identifier of type geonames exists and has an empty value
FirstGeonamesEmpty(e) ==
    LET g == SelectSeq(IdnoPairs(e), LAMBDA x : x.type = Chars("geonames"))
    IN  g # <<>> /\ g[1].value = <<>>

DirectNotes(e) ==
    SelectSeq(e.children,
              LAMBDA n : n.nodeType = "element" /\ n.ns = "tei" /\ n.localName = "note")

\* every child named note, in any letter case or namespace, is a TEI note
OnlyTeiNotes(e) ==
    \A i \in 1..Len(e.children) :
        (e.children[i].nodeType = "element" /\ lowerName(e.children[i].localName) = "note")
            => (e.children[i].ns = "tei" /\ e.children[i].localName = "note")

NoteBlock(c) == TextsAfter(c, "<p class=\"small mb-0\">")

RawLife(e, ln) ==
    LET at == SelectSeq(descendants(e.children), LAMBDA n : n.localName = ln)
    IN  IF at = <<>> THEN <<>> ELSE at[1].attrs.when

\* empty, or 'unknown' in any letter case
IsAbsentValue(v) == v \in {<<>>, Chars("unknown"), When_Unknown}

\* the pieces of the card between the opening of the dates line and its end
DatesLine(c) ==
    LET open == "<div class=\"small text-muted mb-1\">"
        at == {i \in 1..Len(c) : c[i].m = open}
    IN  IF at = {} THEN <<>>
        ELSE LET i == CHOOSE k \in at : TRUE
                 j == CHOOSE k \in (i + 1)..Len(c) :
                        c[k].m = "</div>" /\ \A l \in (i + 1)..(k - 1) : c[l].m # "</div>"
             IN  SubSeq(c, i + 1, j - 1)

VariantSet(e) ==
    LET ln == variantElement(EntryKind(e))
        at == SelectSeq(descendants(e.children), LAMBDA n : n.localName = ln)
    IN  {trim(textContent(at[i])) : i \in 1..Len(at)} \ {<<>>}

HasVariantsBlock(c) ==
    HasLiteral(c, "<div class=\"small text-muted mb-2\"><strong>Variants:</strong> ")

\* C17: the variants block is shown if and only if the entry has more than
\* one distinct name variant.
C17_DistinctVariants ==
    CardShown => (HasVariantsBlock(annotContent) <=> Cardinality(VariantSet(Clicked)) > 1)

\* an interpolated string holds no '<', '>' or quote, and no '&' that does
\* not start one of the five entities escapeHTML writes
IsEscaped(t) ==
    /\ \A i \in 1..Len(t) : t[i] \notin {"<", ">", "\"", "'"}
    /\ \A i \in 1..Len(t) :
          t[i] = "&" =>
             \E e \in {Chars("&amp;"), Chars("&lt;"), Chars("&gt;"), Chars("&quot;"),
                       Chars("&#39;")} :
                 i + Len(e) - 1 <= Len(t) /\ SubSeq(t, i, i + Len(e) - 1) = e

\* C18: every string interpolated into the markup of the annotation panel is
\* HTML-escaped.
C18_AllEscaped ==
    \A i \in 1..Len(annotContent) : IsEscaped(annotContent[i].t)

----------------------------------------------------------------------------
(* Properties of the offline transform *)

IsFolioSegment(n) ==
    n.nodeType = "element" /\ n.ns = "tei" /\ n.localName = "seg" /\ n.attrs.type = "folio"

\* the folio segments of the file given to the transform
FolioSegments == SelectSeq(descendants(xmlSource.body), IsFolioSegment)

\* the texts of all text nodes of a subtree
RECURSIVE allLeaves(_)
allLeaves(ns) ==
    IF ns = <<>> THEN <<>>
    ELSE (IF Head(ns).nodeType = "text" THEN <<Head(ns).text>>
          ELSE allLeaves(Head(ns).children)) \o allLeaves(Tail(ns))

Members(xs) == {xs[i] : i \in 1..Len(xs)}

\* C20: a folio segment contributes nothing to reading-mode output, neither an
\* element nor its text, in the client renderer and in the offline transform
\* alike, and the client renders it as a visible marker in the other modes.
C20_FolioSegSuppressed ==
    htmlFile.built =>
        \A i \in 1..Len(FolioSegments) :
            LET seg == FolioSegments[i]
            IN  /\ renderNode(seg, "reading") = <<>>
                /\ \A mode \in Modes \ {"reading"} :
                      /\ renderNode(seg, mode) =
                            <<OutEl("span", "page-break", <<>>, <<>>, <<>>,
                                    renderChildren(seg.children, mode))>>
                      /\ outLeaves(renderNode(seg, mode)) = allLeaves(<<seg>>)
                /\ Members(allLeaves(<<seg>>)) \cap Members(outLeaves(htmlFile.body)) = {}
                /\ \A j \in 1..Len(outElements(htmlFile.body)) :
                      outElements(htmlFile.body)[j].cls # "page-break"

----------------------------------------------------------------------------
(* Properties of formatPtBRDate and of its callers *)

\* YYYY, YYYY-MM or YYYY-MM-DD with a month between 01 and 12
ValidPartialIso(s) ==
    /\ matchIsoDate(s) # <<>>
    /\ matchIsoDate(s)[2] # <<>> => parseInt2(matchIsoDate(s)[2]) \in 1..12

\* the panel holds the card of a span with a data-when and no data-ref
DateCardShown == annotOpen /\ lastClick.ref = <<>> /\ lastClick.when # <<>>

\* the raw when attribute of the first date element of an event entry
EventWhen(e) == RawLife(e, "date")

\* C21: for an input that is not a valid partial-ISO date formatPtBRDate
\* returns the empty string, and the date card and the event card then
\* display the raw value.
C21_InvalidDateShowsRaw ==
    /\ DateCardShown =>
          LET when == trim(lastClick.when)
          IN  ~ValidPartialIso(when) =>
                 /\ formatPtBRDate(when) = <<>>
                 /\ TextsAfter(annotContent, "</div><p class=\"small mb-0\">")
                       = <<interpolate(when, pageScript)>>
    /\ (/\ CardShown
        /\ EntryKind(Clicked) = "event"
        /\ EventWhen(Clicked) # <<>>
        /\ ~ValidPartialIso(trim(EventWhen(Clicked)))) =>
             /\ formatPtBRDate(EventWhen(Clicked)) = <<>>
             /\ DatesLine(annotContent) = <<T(interpolate(EventWhen(Clicked), pageScript))>>

----------------------------------------------------------------------------
(* Further properties of the standoff index *)

\* the ids of the entries the loader selects from the file of a kind
IdsOfFile(kind) ==
    LET nodes == foundByTags(StandoffDoc(kind), selectors(kind))
    IN  {entryId(nodes[i]) : i \in 1..Len(nodes)} \ {<<>>}

\* C22: after the index build every index entry carries the kind of the
\* standoff file it was loaded from, so that for an id that occurs in files of
\* two kinds the kind the entry came from can be read off the index.
C22_EntriesAnnotatedWithKind ==
    Loaded =>
        \A id \in IndexIds :
            /\ "kind" \in DOMAIN STANDOFF_INDEX[id]
            /\ standoffFiles[STANDOFF_INDEX[id].kind] # Failing
            /\ id \in IdsOfFile(STANDOFF_INDEX[id].kind)

\* C23: whatever the outcome of a boot sequence that was given a file, once
\* the boot handler has finished the transcription area shows the document or
\* an explanatory placeholder, never nothing.
C23_NeverBlank ==
    (bpc = "done" /\ fileParam) => readingLayer \in {"doc", "placeholder"}

----------------------------------------------------------------------------
(* Further properties of the click handler *)

\* C24: whatever reference is clicked, the lookup yields nothing or an entry
\* element: no key of the index, the loader's own flag included, maps to
\* another value, and rendering the card never fails on such a value.
C24_OnlyEntriesInIndex ==
    RefClicked =>
        /\ lastClick.entry = NoEntry \/ lastClick.entry.nodeType = "element"
        /\ ~handlerThrew
        /\ \A k \in DOMAIN STANDOFF_INDEX : STANDOFF_INDEX[k].nodeType = "element"

----------------------------------------------------------------------------
(* Further properties of the standoff loader *)

\* C25: also when loadStandoffFiles is called again while an earlier call is
\* suspended at a fetch, each standoff file is fetched at most once, and when
\* every call has returned the index is the index of a single completed call.
C25_OverlappingCallFetchesOnce ==
    /\ \A k \in DOMAIN fetchCount : fetchCount[k] <= 1
    /\ (Loaded /\ \A c \in Calls : lpc[c] \in {"none", "done"}) =>
          /\ IndexIds = LoadedIds
          /\ \A id \in LoadedIds : STANDOFF_INDEX[id] = LastWithId(id)

----------------------------------------------------------------------------
(* The viewer session: boot, standoff loading and clicks in one page *)

\* the spans clicked during a session: two indexed references and a span
\* without data-ref and data-when
SessionSpans ==
    {[ref |-> <<"#">> \o Id_p1, when |-> <<>>],
     [ref |-> <<"#">> \o Id_x, when |-> <<>>],
     [ref |-> <<>>, when |-> <<>>]}

NextSession ==
    \/ BootNoFile
    \/ BootLoadDocument
    \/ \E c \in Calls : CallLoadStandoff(c)
    \/ \E c \in Calls : FetchSettles(c)
    \/ BootResume
    \/ \E span \in SessionSpans : ClickAnnotated(span)
    \/ CloseAnnotations

SpecSession == InitBoot /\ [][NextSession]_vars

\* the index a single completed call of loadStandoffFiles builds from the
\* files the server holds
FinalIndex ==
    [id \in LoadedIds \cup {LoadedKey} |->
        IF id = LoadedKey THEN LoadedFlag ELSE LastWithId(id)]

\* C26: the click handler is installed only after the boot's call of
\* loadStandoffFiles has completed; from then on no step changes the standoff
\* index; and every handled click on a reference resolved against the
\* complete index of the files that loaded.
C26_ClicksSeeFinalIndex ==
    /\ [](annotBound => (lpc[1] = "done" /\ STANDOFF_INDEX = FinalIndex))
    /\ [][annotBound => STANDOFF_INDEX' = STANDOFF_INDEX]_vars
    /\ [](RefClicked => lastClick.entry = lookup(FinalIndex, lastClick.id))

\* a click on #x was answered with the place the merge keeps, in a session
\* where a second, overlapping call of the loader ran to its end as well
C26_Witness ==
    /\ RefClicked
    /\ lastClick.id = Id_x
    /\ Id_x \in LoadedIds
    /\ lastClick.entry = LastWithId(Id_x)
    /\ lastClick.entry.localName = "place"
    /\ lpc[2] = "done" /\ lk[2] = 4

----------------------------------------------------------------------------
(* The annotation panel under every kind of click *)

\* the spans clicked: a reference to every key of the index and to an absent
\* id, a date, a blank date, and a span without data-ref and data-when
PanelSpans(index) ==
    {[ref |-> <<"#">> \o k, when |-> <<>>] : k \in DOMAIN index}
        \cup {[ref |-> <<"#">> \o Id_absent, when |-> <<>>],
              [ref |-> <<>>, when |-> When_1834],
              [ref |-> <<>>, when |-> <<" ">>],
              [ref |-> <<>>, when |-> <<>>]}

NextPanel ==
    \/ \E span \in PanelSpans(STANDOFF_INDEX) : ClickAnnotated(span)
    \/ ClickOutside
    \/ CloseAnnotations

SpecPanel == InitCard /\ [][NextPanel]_vars

----------------------------------------------------------------------------
(* Properties of the annotation panel *)

\* what C27 speaks about: the visibility of the box, the marker on the body
\* and the markup of the panel
panelState == <<boxHidden, annotOpen, annotContent>>

\* C27: after any sequence of clicks on annotated spans, outside them and on
\* the close button, the annotations box is visible exactly when the body
\* carries annotations-open, and the panel content is empty whenever the box
\* is hidden; a click outside every annotated span and a click on a span with
\* neither data-ref nor data-when change none of the three.
C27_PanelConsistent ==
    /\ []((~boxHidden <=> annotOpen) /\ (boxHidden => annotContent = <<>>))
    /\ [][lastTarget' \in {"inert", "outside"} => panelState' = panelState]_vars

\* a card was open when a span without data-ref and data-when was clicked,
\* and the card is still shown
C27_Witness ==
    /\ lastTarget = "inert"
    /\ RefClicked
    /\ annotOpen /\ ~boxHidden
    /\ annotContent # <<>>

----------------------------------------------------------------------------
(* The organizations tree (part_001, network_orgs.js) *)

RootId == <<"v", "d", "_", "o", "r", "g", "s", "_", "r", "o", "o", "t">>
AllTypes == <<"a", "l", "l">>

OrgNode(id, label, type, children) ==
    [id |-> id, label |-> label, type |-> type, children |-> children]

EmptyRoot == OrgNode(RootId, <<"O", "r", "g", "s">>, <<"r", "o", "o", "t">>, <<>>)

\* toRootTree(data) for a JSON of the form {roots: [...]}, for a tree with an
\* id and children (held as the only element of nodes), and for anything else
toRootTree(raw) ==
    IF raw.form = "roots" THEN [EmptyRoot EXCEPT !.children = raw.nodes]
    ELSE IF raw.form = "tree" /\ raw.nodes[1].id # <<>> THEN raw.nodes[1]
    ELSE EmptyRoot

\* s.includes(q)
includes(s, q) ==
    \E i \in 1..(Len(s) + 1) :
        i + Len(q) - 1 <= Len(s) /\ SubSeq(s, i, i + Len(q) - 1) = q

nodeMatchesType(n, type) ==
    IF type = AllTypes THEN TRUE
    ELSE toLowerCase(n.type) = toLowerCase(type)

nodeMatchesQuery(n, query) ==
    LET q == toLowerCase(trim(query))
    IN  IF q = <<>> THEN TRUE
        ELSE includes(toLowerCase(n.label \o <<" ">> \o n.id), q)

RECURSIVE concatAll(_)
concatAll(ss) == IF ss = <<>> THEN <<>> ELSE Head(ss) \o concatAll(Tail(ss))

\* filterTree(node): <<>> for null, else the pruned copy in a one-element
\* sequence
RECURSIVE filterTree(_, _, _)
filterTree(node, type, query) ==
    LET keptKids == concatAll([i \in 1..Len(node.children) |->
                                  filterTree(node.children[i], type, query)])
        selfOk == IF node.id = RootId THEN TRUE
                  ELSE nodeMatchesType(node, type) /\ nodeMatchesQuery(node, query)
    IN  IF selfOk \/ keptKids # <<>>
        THEN <<[node EXCEPT !.children = keptKids]>>
        ELSE <<>>

\* the ids of the nodes of a hierarchy at depth >= min
RECURSIVE idsFromDepth(_, _, _)
idsFromDepth(node, depth, min) ==
    (IF depth >= min /\ node.id # <<>> THEN {node.id} ELSE {})
        \cup UNION {idsFromDepth(node.children[i], depth + 1, min) :
                       i \in 1..Len(node.children)}

\* collapseByDefault(d3root): every node from depth 2 on is added
collapseByDefault(root, collapsed) == collapsed \cup idsFromDepth(root, 0, 2)

\* applyCollapseState on one node: its children are moved to _children
isFolded(node, depth, collapsed) ==
    /\ depth # 0
    /\ node.id # <<>>
    /\ node.id \in collapsed
    /\ node.children # <<>>

\* d3root.descendants() after applyCollapseState: the ids of the nodes drawn
RECURSIVE drawnNodes(_, _, _)
drawnNodes(node, depth, collapsed) ==
    {node.id} \cup
        (IF isFolded(node, depth, collapsed) THEN {}
         ELSE UNION {drawnNodes(node.children[i], depth + 1, collapsed) :
                        i \in 1..Len(node.children)})

\* the ids of the nodes drawn with the class vd-org-collapsed (d._children)
RECURSIVE drawnCollapsed(_, _, _)
drawnCollapsed(node, depth, collapsed) ==
    IF isFolded(node, depth, collapsed) THEN {node.id}
    ELSE UNION {drawnCollapsed(node.children[i], depth + 1, collapsed) :
                   i \in 1..Len(node.children)}

\* drawTree(rootObj): the collapse set it leaves and the tree it draws
drawTree(rootObj, collapsed, type, query) ==
    LET found == filterTree(rootObj, type, query)
        pruned == IF found = <<>> THEN EmptyRoot ELSE found[1]
        state == IF collapsed = {} THEN collapseByDefault(pruned, collapsed)
                 ELSE collapsed
    IN  [COLLAPSED |-> state,
         drawn |-> [nodes |-> drawnNodes(pruned, 0, state),
                    collapsed |-> drawnCollapsed(pruned, 0, state)]]

\* rebuild() with the given module state
rebuild(collapsed, type, query) ==
    LET r == drawTree(ROOT_OBJ[1], collapsed, type, query)
    IN  /\ COLLAPSED' = r.COLLAPSED
        /\ treeDrawn' = r.drawn
        /\ CURRENT_TYPE' = type
        /\ CURRENT_QUERY' = query

(* sample data of network_orgs_tree.json *)

Ty_party == <<"p", "a", "r", "t", "y">>
Ty_press == <<"P", "r", "e", "s", "s">>
Org_cell == OrgNode(<<"c", "e">>, <<"C", "e", "l">>, Ty_party, <<>>)
Org_club == OrgNode(<<"c", "l">>, <<"C", "l", "u", "b">>, Ty_party, <<Org_cell>>)
Org_lib == OrgNode(<<"l", "i">>, <<"L", "i", "b">>, Ty_party, <<Org_club>>)
Org_paper == OrgNode(<<"p", "a">>, <<"P", "o", "v", "o">>, Ty_press, <<>>)
Org_press == OrgNode(<<"p", "r">>, <<"I", "m", "p">>, Ty_press, <<Org_paper>>)

RawSamples ==
    {[form |-> "roots", nodes |-> <<Org_lib, Org_press>>],
     [form |-> "tree", nodes |-> <<Org_lib>>],
     [form |-> "other", nodes |-> <<>>]}

TypeOptions == {AllTypes, Ty_party, <<"p", "r", "e", "s", "s">>}
Queries == {<<>>, <<"c", "l">>, <<"z">>}

\* main(): the data is loaded and the tree drawn for the first time
TreeMain ==
    /\ ROOT_OBJ = <<>>
    /\ \E raw \in RawSamples :
          /\ ROOT_OBJ' = <<toRootTree(raw)>>
          /\ LET r == drawTree(toRootTree(raw), COLLAPSED, CURRENT_TYPE, CURRENT_QUERY)
             IN  /\ COLLAPSED' = r.COLLAPSED
                 /\ treeDrawn' = r.drawn
    /\ treeOp' = "main"
    /\ UNCHANGED <<CURRENT_TYPE, CURRENT_QUERY, userExpanded>>
    /\ UNCHANGED <<textVars, bootVars, cardVars, xsltVars, yearVars, idxVars>>

\* click on the circle of a drawn node
NodeClick(id) ==
    /\ ROOT_OBJ # <<>>
    /\ id \in treeDrawn.nodes
    /\ id # ROOT_OBJ[1].id
    /\ id # <<>>
    /\ IF id \in COLLAPSED
       THEN /\ rebuild(COLLAPSED \ {id}, CURRENT_TYPE, CURRENT_QUERY)
            /\ userExpanded' = userExpanded \cup {id}
       ELSE /\ rebuild(COLLAPSED \cup {id}, CURRENT_TYPE, CURRENT_QUERY)
            /\ userExpanded' = userExpanded \ {id}
    /\ treeOp' = "click"
    /\ UNCHANGED ROOT_OBJ
    /\ UNCHANGED <<textVars, bootVars, cardVars, xsltVars, yearVars, idxVars>>

\* change of the type filter
TypeChange(type) ==
    /\ ROOT_OBJ # <<>>
    /\ rebuild(COLLAPSED, type, CURRENT_QUERY)
    /\ treeOp' = "type"
    /\ UNCHANGED <<ROOT_OBJ, userExpanded>>
    /\ UNCHANGED <<textVars, bootVars, cardVars, xsltVars, yearVars, idxVars>>

\* input in the search box, after the debounce delay
SearchInput(query) ==
    /\ ROOT_OBJ # <<>>
    /\ rebuild(COLLAPSED, CURRENT_TYPE, query)
    /\ treeOp' = "search"
    /\ UNCHANGED <<ROOT_OBJ, userExpanded>>
    /\ UNCHANGED <<textVars, bootVars, cardVars, xsltVars, yearVars, idxVars>>

\* click on Expand All
ExpandAll ==
    /\ ROOT_OBJ # <<>>
    /\ rebuild({}, CURRENT_TYPE, CURRENT_QUERY)
    /\ treeOp' = "expandAll"
    /\ UNCHANGED <<ROOT_OBJ, userExpanded>>
    /\ UNCHANGED <<textVars, bootVars, cardVars, xsltVars, yearVars, idxVars>>

\* click on Collapse All: every node below the root of the filtered tree
CollapseAll ==
    /\ ROOT_OBJ # <<>>
    /\ LET found == filterTree(ROOT_OBJ[1], CURRENT_TYPE, CURRENT_QUERY)
           pruned == IF found = <<>> THEN ROOT_OBJ[1] ELSE found[1]
       IN  rebuild(idsFromDepth(pruned, 0, 1), CURRENT_TYPE, CURRENT_QUERY)
    /\ userExpanded' = {}
    /\ treeOp' = "collapseAll"
    /\ UNCHANGED ROOT_OBJ
    /\ UNCHANGED <<textVars, bootVars, cardVars, xsltVars, yearVars, idxVars>>

\* click on Reset
TreeReset ==
    /\ ROOT_OBJ # <<>>
    /\ rebuild({}, AllTypes, <<>>)
    /\ userExpanded' = {}
    /\ treeOp' = "reset"
    /\ UNCHANGED ROOT_OBJ
    /\ UNCHANGED <<textVars, bootVars, cardVars, xsltVars, yearVars, idxVars>>

NodeIds == {Org_cell.id, Org_club.id, Org_lib.id, Org_paper.id, Org_press.id}

InitTree ==
    /\ TreeQuiet
    /\ YearQuiet
    /\ IdxQuiet
    /\ TextQuiet
    /\ BootQuiet
    /\ CardQuiet
    /\ XsltQuiet

NextTree ==
    \/ TreeMain
    \/ \E id \in NodeIds : NodeClick(id)
    \/ \E type \in TypeOptions : TypeChange(type)
    \/ \E query \in Queries : SearchInput(query)
    \/ ExpandAll
    \/ CollapseAll
    \/ TreeReset

SpecTree == InitTree /\ [][NextTree]_vars

----------------------------------------------------------------------------
(* Properties of the organizations tree *)

\* C28: after any sequence of node clicks, filter changes and expand-all,
\* collapse-all and reset actions, a node the user expanded and has not
\* collapsed since is not drawn collapsed by any later rebuild; and the tree
\* drawn by Expand All has no collapsed node.
C28_CollapseStatePersists ==
    /\ \A id \in userExpanded : id \notin treeDrawn.collapsed
    /\ treeOp = "expandAll" => treeDrawn.collapsed = {}

----------------------------------------------------------------------------
(* The year animation of the map (part_001, map script) *)

\* setInterval calls in one session
MaxStarts == 3

TimerIds == 1..MaxStarts

\* Number(v) for the option values that match /^\d{4}$/
yearNumber(v) ==
    CASE v = "1835" -> 1835
      [] v = "1836" -> 1836
      [] v = "1837" -> 1837
      [] v = "1838" -> 1838

isYearValue(v) == v \in {"1835", "1836", "1837", "1838"}

\* Array.prototype.indexOf, 0-based, -1 when absent
indexOf(s, v) ==
    IF \E i \in 1..Len(s) : s[i] = v
    THEN (CHOOSE i \in 1..Len(s) : s[i] = v /\ \A j \in 1..(i - 1) : s[j] # v) - 1
    ELSE -1

\* insertion of a year into a list sorted by Number(a) - Number(b)
RECURSIVE insertYear(_, _)
insertYear(s, v) ==
    IF s = <<>> THEN <<v>>
    ELSE IF yearNumber(v) < yearNumber(Head(s)) THEN <<v>> \o s
    ELSE <<Head(s)>> \o insertYear(Tail(s), v)

RECURSIVE sortYears(_)
sortYears(s) ==
    IF s = <<>> THEN <<>>
    ELSE insertYear(sortYears(SubSeq(s, 1, Len(s) - 1)), s[Len(s)])

\* the options of #yearFilter that are years, sorted
yearOptionsOf(options) == sortYears(SelectSeq(options, isYearValue))

\* a clearInterval that does nothing
clearYearTimer_keep(ivs, timer) == ivs

\* clearInterval(YEAR_TIMER) of stopYearAnimation, on the intervals the
\* browser holds
clearYearTimer(ivs, timer) == IF timer # 0 THEN ivs \ {timer} ELSE ivs

\* startYearAnimation(): any running animation is stopped first; with year
\* options the first frame is applied and an interval is set
StartYearAnimation ==
    /\ timersMade < MaxStarts
    /\ LET opts == yearOptionsOf(yearOptions)
           found == indexOf(opts, yearValue)
           idx == IF found < 0 THEN 0 ELSE found
           id == timersMade + 1
       IN  /\ YEAR_OPTIONS' = opts
           /\ IF opts = <<>>
              THEN /\ YEAR_TIMER' = 0
                   /\ intervals' = clearYearTimer(intervals, YEAR_TIMER)
                   /\ filtersDisabled' = FALSE
                   /\ UNCHANGED <<YEAR_INDEX, yearValue, shownYear, timersMade>>
              ELSE /\ YEAR_INDEX' = idx
                   /\ filtersDisabled' = TRUE
                   /\ yearValue' = opts[idx + 1]
                   /\ shownYear' = opts[idx + 1]
                   /\ YEAR_TIMER' = id
                   /\ intervals' = clearYearTimer(intervals, YEAR_TIMER) \cup {id}
                   /\ timersMade' = id
    /\ yearOp' = "start"
    /\ UNCHANGED yearOptions
    /\ UNCHANGED <<textVars, bootVars, cardVars, xsltVars, treeVars, idxVars>>

\* click on the stop button, enabled while the filters are disabled
StopClick ==
    /\ filtersDisabled
    /\ intervals' = clearYearTimer(intervals, YEAR_TIMER)
    /\ YEAR_TIMER' = 0
    /\ filtersDisabled' = FALSE
    /\ yearOp' = "stop"
    /\ UNCHANGED <<timersMade, YEAR_OPTIONS, YEAR_INDEX, yearOptions, yearValue,
                   shownYear>>
    /\ UNCHANGED <<textVars, bootVars, cardVars, xsltVars, treeVars, idxVars>>

\* click on the clear button: clearFilters()
ClearFilters ==
    /\ yearValue' = ""
    /\ intervals' = clearYearTimer(intervals, YEAR_TIMER)
    /\ YEAR_TIMER' = 0
    /\ filtersDisabled' = FALSE
    /\ shownYear' = ""
    /\ yearOp' = "clear"
    /\ UNCHANGED <<timersMade, YEAR_OPTIONS, YEAR_INDEX, yearOptions>>
    /\ UNCHANGED <<textVars, bootVars, cardVars, xsltVars, treeVars, idxVars>>

\* the user picks an option of #yearFilter, which is possible while the
\* select is enabled
YearChange(v) ==
    /\ ~filtersDisabled
    /\ \E i \in 1..Len(yearOptions) : yearOptions[i] = v
    /\ v # yearValue
    /\ yearValue' = v
    /\ shownYear' = v
    /\ yearOp' = "change"
    /\ UNCHANGED <<YEAR_TIMER, intervals, timersMade, YEAR_OPTIONS, YEAR_INDEX,
                   yearOptions, filtersDisabled>>
    /\ UNCHANGED <<textVars, bootVars, cardVars, xsltVars, treeVars, idxVars>>

\* the callback of an interval the browser holds
Tick(t) ==
    /\ t \in intervals
    /\ IF YEAR_INDEX >= Len(YEAR_OPTIONS) - 1
       THEN /\ intervals' = clearYearTimer(intervals, YEAR_TIMER)
            /\ YEAR_TIMER' = 0
            /\ filtersDisabled' = FALSE
            /\ UNCHANGED <<YEAR_INDEX, yearValue, shownYear>>
       ELSE /\ YEAR_INDEX' = YEAR_INDEX + 1
            /\ yearValue' = YEAR_OPTIONS[YEAR_INDEX + 2]
            /\ shownYear' = YEAR_OPTIONS[YEAR_INDEX + 2]
            /\ UNCHANGED <<YEAR_TIMER, intervals, filtersDisabled>>
    /\ yearOp' = "tick"
    /\ UNCHANGED <<timersMade, YEAR_OPTIONS, yearOptions>>
    /\ UNCHANGED <<textVars, bootVars, cardVars, xsltVars, treeVars, idxVars>>

\* the options of #yearFilter after populateFilters: the option for all
\* years, then the distinct years of the records in ascending order
YearOptionSamples ==
    {<<"">>, <<"", "1836">>, <<"", "1835", "1837">>,
     <<"", "1835", "1836", "1837", "1838">>}

InitYears ==
    /\ yearOptions \in YearOptionSamples
    /\ yearValue = ""
    /\ shownYear = ""
    /\ YEAR_TIMER = 0
    /\ intervals = {}
    /\ timersMade = 0
    /\ YEAR_OPTIONS = <<>>
    /\ YEAR_INDEX = 0
    /\ filtersDisabled = FALSE
    /\ yearOp = "none"
    /\ TreeQuiet
    /\ IdxQuiet
    /\ TextQuiet
    /\ BootQuiet
    /\ CardQuiet
    /\ XsltQuiet

NextYears ==
    \/ StartYearAnimation
    \/ StopClick
    \/ ClearFilters
    \/ \E v \in {"", "1835", "1836", "1837", "1838"} : YearChange(v)
    \/ \E t \in TimerIds : Tick(t)

\* the interval keeps firing while it is set
SpecYears ==
    InitYears /\ [][NextYears]_vars /\ WF_vars(\E t \in TimerIds : Tick(t))

----------------------------------------------------------------------------
(* Properties of the year animation *)

LastYearIndex == Len(YEAR_OPTIONS) - 1

\* C29: the browser holds at most one interval of the animation, the one in
\* YEAR_TIMER, and the filters are disabled exactly while it is set, also when
\* the animation is started again while it runs; a tick moves to the next
\* year option, or, at the last one, clears the timer and enables the filters
\* without moving; and a running animation ends, either stopped by the user
\* or by the tick that finds it at the last year.
C29_OneTimerRunsToTheEnd ==
    /\ [](/\ Cardinality(intervals) <= 1
          /\ intervals = (IF YEAR_TIMER = 0 THEN {} ELSE {YEAR_TIMER})
          /\ filtersDisabled <=> YEAR_TIMER # 0)
    /\ [][yearOp' = "tick" =>
             IF YEAR_INDEX < LastYearIndex
             THEN /\ YEAR_INDEX' = YEAR_INDEX + 1
                  /\ yearValue' = YEAR_OPTIONS[YEAR_INDEX' + 1]
                  /\ shownYear' = yearValue'
                  /\ YEAR_TIMER' = YEAR_TIMER
             ELSE /\ YEAR_TIMER' = 0
                  /\ intervals' = {}
                  /\ ~filtersDisabled'
                  /\ YEAR_INDEX' = YEAR_INDEX
                  /\ yearValue' = yearValue]_vars
    /\ (YEAR_TIMER # 0) ~>
          /\ YEAR_TIMER = 0
          /\ ~filtersDisabled
          /\ \/ yearOp \in {"stop", "clear"}
             \/ /\ yearOp = "tick"
                /\ YEAR_INDEX = LastYearIndex
                /\ yearValue = YEAR_OPTIONS[Len(YEAR_OPTIONS)]

\* the animation was started a second time, walked to 1838, the last of four
\* years, and stopped by itself
C29_Witness ==
    /\ yearOp = "tick"
    /\ timersMade = 2
    /\ YEAR_TIMER = 0 /\ intervals = {}
    /\ ~filtersDisabled
    /\ Len(YEAR_OPTIONS) = 4
    /\ YEAR_INDEX = 3
    /\ yearValue = "1838"

----------------------------------------------------------------------------
(* The indexes browser (indexes.js) *)

PAGE_SIZE == 20

\* records of the largest indexes.json given to the browser
MaxDocs == 121

mathMax(a, b) == IF a >= b THEN a ELSE b
mathMin(a, b) == IF a <= b THEN a ELSE b

\* a page count that rounds down
totalPagesOf_floor(total) == mathMax(1, total \div PAGE_SIZE)

\* Math.max(1, Math.ceil(total / PAGE_SIZE))
totalPagesOf(total) == mathMax(1, (total + PAGE_SIZE - 1) \div PAGE_SIZE)

\* the callback of data.filter in applyFilters, for the year and the author
passesFilters(d, y, a) ==
    /\ ~(a # "" /\ d.author # a)
    /\ ~(y # "" /\ d.year # y)

\* renderPageLinks(totalPages): the pages the links lead to
renderPageLinks(totalPages, page) ==
    IF totalPages <= 1 THEN {}
    ELSE LET start == mathMax(1, page - 2)
             end == mathMin(totalPages, page + 2)
             next5 == mathMin(totalPages, page + 5)
         IN  {1} \cup (start..end) \cup {totalPages}
                 \cup (IF next5 # page THEN {next5} ELSE {})

\* renderPage() for the given currentPage and filtered array
RECURSIVE renderPage(_, _, _)
renderPage(page, docs, links) ==
    LET total == Len(docs)
        totalPages == totalPagesOf(total)
        high == IF page > totalPages THEN totalPages ELSE page
        clamped == IF high < 1 THEN 1 ELSE high
        startIdx == (clamped - 1) * PAGE_SIZE
        endIdx == mathMin(startIdx + PAGE_SIZE, total)
        items == SubSeq(docs, startIdx + 1, endIdx)
    IN  IF items = <<>> /\ total > 0 THEN renderPage(1, docs, links)
        ELSE [currentPage |-> clamped,
              pageItems |-> items,
              prevDisabled |-> clamped <= 1,
              nextDisabled |-> clamped >= totalPages,
              linkTargets |-> IF links THEN renderPageLinks(totalPages, clamped)
                              ELSE {}]

\* the effect of renderPage() on the page
Render(page, docs) ==
    LET r == renderPage(page, docs, hasLinks)
    IN  /\ currentPage' = r.currentPage
        /\ pageItems' = r.pageItems
        /\ prevDisabled' = r.prevDisabled
        /\ nextDisabled' = r.nextDisabled
        /\ linkTargets' = r.linkTargets
        /\ rendered' = TRUE

\* applyFilters(true) with the given filter values
applyFilters(docs, y, a) ==
    LET kept == SelectSeq(docs, LAMBDA d : passesFilters(d, y, a))
    IN  /\ filteredDocs' = kept
        /\ idxYear' = y
        /\ idxAuthor' = a
        /\ Render(1, kept)

\* record i of a sample indexes.json
IndexDoc(i) ==
    [cv_id |-> i,
     year |-> IF i % 2 = 1 THEN "1835" ELSE "1836",
     author |-> IF i % 4 = 0 THEN "B" ELSE "A"]

DataSizes == {0, 1, PAGE_SIZE, PAGE_SIZE + 1, 45, 61, MaxDocs}

IdxYears == {"", "1835", "1836"}
IdxAuthors == {"", "A", "B"}

\* indexes.json has arrived: populateFilters(), applyFilters(true)
DataArrives ==
    /\ data = <<>>
    /\ ~rendered
    /\ \E n \in DataSizes :
          /\ data' = [i \in 1..n |-> IndexDoc(i)]
          /\ applyFilters([i \in 1..n |-> IndexDoc(i)], idxYear, idxAuthor)
    /\ UNCHANGED hasLinks
    /\ UNCHANGED <<textVars, bootVars, cardVars, xsltVars, treeVars, yearVars>>

\* change of #yearFilter to one of its options
IdxYearChange(y) ==
    /\ y = "" \/ \E i \in 1..Len(data) : data[i].year = y
    /\ applyFilters(data, y, idxAuthor)
    /\ UNCHANGED <<data, hasLinks>>
    /\ UNCHANGED <<textVars, bootVars, cardVars, xsltVars, treeVars, yearVars>>

\* change of #authorFilter to one of its options
IdxAuthorChange(a) ==
    /\ a = "" \/ \E i \in 1..Len(data) : data[i].author = a
    /\ applyFilters(data, idxYear, a)
    /\ UNCHANGED <<data, hasLinks>>
    /\ UNCHANGED <<textVars, bootVars, cardVars, xsltVars, treeVars, yearVars>>

\* click on the clear button: clearFilters()
IdxClear ==
    /\ applyFilters(data, "", "")
    /\ UNCHANGED <<data, hasLinks>>
    /\ UNCHANGED <<textVars, bootVars, cardVars, xsltVars, treeVars, yearVars>>

\* click on the previous button
PrevClick ==
    /\ currentPage > 1
    /\ Render(currentPage - 1, filteredDocs)
    /\ UNCHANGED <<data, idxYear, idxAuthor, filteredDocs, hasLinks>>
    /\ UNCHANGED <<textVars, bootVars, cardVars, xsltVars, treeVars, yearVars>>

\* click on the next button
NextClick ==
    /\ currentPage < totalPagesOf(Len(filteredDocs))
    /\ Render(currentPage + 1, filteredDocs)
    /\ UNCHANGED <<data, idxYear, idxAuthor, filteredDocs, hasLinks>>
    /\ UNCHANGED <<textVars, bootVars, cardVars, xsltVars, treeVars, yearVars>>

\* click on one of the links of #pageLinks
PageLinkClick(page) ==
    /\ page \in linkTargets
    /\ Render(page, filteredDocs)
    /\ UNCHANGED <<data, idxYear, idxAuthor, filteredDocs, hasLinks>>
    /\ UNCHANGED <<textVars, bootVars, cardVars, xsltVars, treeVars, yearVars>>

InitIdx ==
    /\ data = <<>>
    /\ idxYear = ""
    /\ idxAuthor = ""
    /\ filteredDocs = <<>>
    /\ currentPage = 1
    /\ pageItems = <<>>
    /\ prevDisabled = FALSE
    /\ nextDisabled = FALSE
    /\ linkTargets = {}
    /\ hasLinks \in BOOLEAN
    /\ rendered = FALSE
    /\ TreeQuiet
    /\ YearQuiet
    /\ TextQuiet
    /\ BootQuiet
    /\ CardQuiet
    /\ XsltQuiet

NextIdx ==
    \/ DataArrives
    \/ \E y \in IdxYears : IdxYearChange(y)
    \/ \E a \in IdxAuthors : IdxAuthorChange(a)
    \/ IdxClear
    \/ PrevClick
    \/ NextClick
    \/ \E page \in 1..totalPagesOf(MaxDocs) : PageLinkClick(page)

SpecIdx == InitIdx /\ [][NextIdx]_vars

----------------------------------------------------------------------------
(* Properties of the indexes browser *)

\* max(1, ceil(n / 20)), computed without the code's expression
LastPage(n) ==
    IF n = 0 THEN 1
    ELSE CHOOSE k \in 1..(n + 1) : (k - 1) * 20 < n /\ n <= k * 20

\* C30: once the page has been rendered, after any filter changes, previous
\* and next clicks and page-link clicks, the page number p is between 1 and
\* max(1, ceil(n / 20)) for the n filtered records, the previous button is
\* disabled exactly when p = 1, the next button exactly when p is the last
\* page, and the page shows the p-th slice of the filtered records, which is
\* not empty when n > 0.
C30_PageWithinRange ==
    rendered =>
        LET n == Len(filteredDocs)
            p == currentPage
        IN  /\ 1 <= p /\ p <= LastPage(n)
            /\ prevDisabled <=> p = 1
            /\ nextDisabled <=> p = LastPage(n)
            /\ n > 0 => pageItems # <<>>
            /\ pageItems = SubSeq(filteredDocs, (p - 1) * 20 + 1,
                                  IF p * 20 < n THEN p * 20 ELSE n)
            /\ \A i \in 1..n :
                  /\ idxYear # "" => filteredDocs[i].year = idxYear
                  /\ idxAuthor # "" => filteredDocs[i].author = idxAuthor

\* with a year filter set, the user has walked to the last of at least three
\* pages, which is not full
C30_Witness ==
    /\ rendered
    /\ idxYear # ""
    /\ currentPage = LastPage(Len(filteredDocs))
    /\ currentPage >= 3
    /\ pageItems # <<>>
    /\ Len(pageItems) < PAGE_SIZE
    /\ nextDisabled /\ ~prevDisabled

====
